---------------------------- MODULE Spec2Model ----------------------------
(* Verification model of the MEXC futures scanner: the adaptive spike     *)
(* detector, the advisory trailing stop, the multi-timeframe moving-       *)
(* average confluence and the universe builder.                            *)
(*                                                                         *)
(* JavaScript numbers that hold prices, percentages and averages are       *)
(* modelled as exact rationals <<n, d>> with d > 0 in lowest terms;        *)
(* timestamps are integers in milliseconds.                                *)
EXTENDS Integers, Sequences, FiniteSets, TLC

VARIABLES
  spikeCfg,   \* SpikeEngine constructor arguments: win, minPct, z, cool
  spike,      \* the SpikeEngine instance: last, ewma, block (Maps keyed by symbol)
  out,        \* the last update call: its arguments and what it returned
  fired,      \* the calls that returned a spike, in call order: <<sym, ts>>
  maxAp,      \* per symbol, the largest absPct an update has computed so far
  nTicks,     \* number of ticks fed so far
  scriptPos,  \* position in the scripted example tick sequence
  uCfg,       \* universe configuration: the environment of the worker
  upc,        \* position of runLoop: build, detail, ticker, symbols, sleep, connected, exited
  u1,         \* buildUniverse: the list kept from contract/detail
  u2,         \* buildUniverse: the list from contract/ticker
  u3,         \* buildUniverse: the list from contract/symbols
  requested,  \* the endpoints requested during the current build
  detailRows, \* the rows contract/detail returned during the current build
  universe,   \* the list the last build returned (a set; [] when it threw)
  useSet,     \* the Set runLoop filters ticks with
  nBuilds,    \* number of builds started
  failedSrc,  \* the endpoints whose request failed during the current build
  buildThrew, \* whether the await of the last buildUniverse() threw
  trailImpl,  \* which trailing stop runs: "updateTrail" or "TrailingManager"
  trailCfg,   \* TRAIL_ENABLE, TRAIL_START_AFTER_PCT, TRAIL_DISTANCE_PCT
  confCfg,    \* the CONFLUENCE_* settings and CANDLE_1M_HISTORY
  cdSpike,    \* Map sym -> ts before which spike alerts are held back
  trails,     \* Map <<sym, isLong>> -> [state, entry, peak, trail]
  books,      \* Map sym -> [m1: closed 1m bars, cur: the open bar, if any]
  maState,    \* Map sym -> moving-average state of the three timeframes
  cdConfluence, \* Map sym -> ts before which confluence alerts are held back
  emitted,    \* the alerts posted while the last ticker entry (feed message) was processed
  tick,       \* the last ticker entry: sym, price, ts, and whether it passed the filters
  clock,      \* the timestamp of the last push.tickers message
  nMsgs,      \* number of ticker entries (feed messages, in the feed model) received
  tmCfg,      \* TrailingManager constructor arguments: startPct, distancePct, stepPct
  positions,  \* TrailingManager.positions: Map symbol -> [side, entry, high, low, stop]
  tmRet,      \* the last TrailingManager call and what it returned
  nCalls,     \* number of TrailingManager calls
  maCfg,      \* MA_ALIGN_ENABLE and the MAAllFrames constructor arguments: limit, cool
  tracked,    \* MAAllFrames.tracked
  agg,        \* the three BarAgg maps: <<frame name, sym>> -> [start, close]
  emaStore,   \* <<sym, frame name>> -> per period [val, prev]
  slopeStore, \* <<sym, frame name>> -> [ready, dir, ordered]
  lastAlert,  \* Map sym -> ts of the last agreement reported
  closes,     \* <<sym, frame name>> -> the closes of the bars closed so far, oldest first
  nBarTicks,  \* number of ticker entries received by the alignment worker
  feedCfg,    \* UNIVERSE_REFRESH_SEC (in ms) and the alert sinks: webhook, telegram, sse
  conn,       \* the feed WebSocket: ws (none, connecting, open), ping, untilTs, retry
  dateNow,    \* Date.now(), in ms
  msg,        \* the last message the 'message' handler received
  priceHist,  \* Map sym -> the [t, p] samples pushPrice keeps
  pending,    \* number of webhook and Telegram requests in flight
  posts,      \* number of webhook and Telegram requests started
  nConn,      \* number of WebSockets constructed
  nClose,     \* number of 'close' events
  stale,      \* the sockets stop() closed that have not emitted 'close' yet
  execCfg,    \* createExecutor options: execute
  requests,   \* the private endpoints the executor has sent a request to, in order
  execRet,    \* what the last executor call returned
  nExec,      \* number of executor calls
  lev         \* lib/leverage.js: levCache, the fetches in flight, the last call, Date.now()

spikeVars == <<spikeCfg, spike, out, fired, maxAp, nTicks, scriptPos>>

uniVars == <<uCfg, upc, u1, u2, u3, requested, detailRows, universe, useSet, nBuilds,
             failedSrc, buildThrew>>

scanVars == <<trailImpl, trailCfg, confCfg, cdSpike, trails, books, maState,
              cdConfluence, emitted, tick, clock, nMsgs>>

tmVars == <<tmCfg, positions, tmRet, nCalls>>

maVars == <<maCfg, tracked, agg, emaStore, slopeStore, lastAlert, closes, nBarTicks>>

feedVars == <<feedCfg, conn, dateNow, msg, priceHist, pending, posts, nConn, nClose,
              stale>>

execVars == <<execCfg, requests, execRet, nExec, lev>>

restVars == <<feedVars, execVars>>

nonSpikeVars == <<uniVars, scanVars, tmVars, maVars, restVars>>

nonUniVars == <<spikeVars, scanVars, tmVars, maVars, restVars>>

vars == <<spikeVars, uniVars, scanVars, tmVars, maVars, restVars>>

-----------------------------------------------------------------------------
(* Bounds of the model *)

MaxTicks == 3

MaxTime == 1

MaxBuilds == 2

MaxMsgs == 5

MaxCalls == 4

MaxBarTicks == 4

\* how many messages the longer feed of the alignment worker has
MaxAlignRun == 5

\* how many messages the handler receives once the 1m history is long enough
MaxWarmMsgs == 3

\* how many ticks the two bar builders are given on top of the long history
MaxBarMsgs == 4

-----------------------------------------------------------------------------
(* Exact rational arithmetic *)

RECURSIVE Gcd(_, _)
Gcd(a, b) == IF b = 0 THEN a ELSE Gcd(b, a % b)

IAbs(x) == IF x < 0 THEN -x ELSE x

Norm(n, d) ==
  LET s == IF d < 0 THEN -1 ELSE 1
      g == Gcd(IAbs(n), IAbs(d))
  IN <<(s * n) \div g, (s * d) \div g>>

R(n) == <<n, 1>>

RAdd(x, y) == Norm(x[1] * y[2] + y[1] * x[2], x[2] * y[2])

RSub(x, y) == Norm(x[1] * y[2] - y[1] * x[2], x[2] * y[2])

RMul(x, y) == Norm(x[1] * y[1], x[2] * y[2])

RDiv(x, y) == Norm(x[1] * y[2], x[2] * y[1])

RLt(x, y) == x[1] * y[2] < y[1] * x[2]

RLe(x, y) == x[1] * y[2] <= y[1] * x[2]

RAbs(x) == <<IAbs(x[1]), x[2]>>

RMax(x, y) == IF RLt(x, y) THEN y ELSE x

RMin(x, y) == IF RLt(y, x) THEN y ELSE x

-----------------------------------------------------------------------------
(* The state of each component after construction *)

NewSpikeEngine == [last |-> <<>>, ewma |-> <<>>, block |-> <<>>]

NullRet == [ret |-> "null", is |-> FALSE, dir |-> "-", ap |-> R(0), z |-> R(0)]

NoCall == [sym |-> "-", price |-> 0, ts |-> 0, prevp |-> 0, res |-> NullRet]

SpikeStart ==
  /\ spike = NewSpikeEngine
  /\ out = NoCall
  /\ fired = <<>>
  /\ maxAp = <<>>
  /\ nTicks = 0
  /\ scriptPos = 0

\* the scenario of the specification: BTC_USDT at 100, 100.5, 107 (in units of
\* 0.5) at t = 0, 1, 2 s with minAbsPct = 0.003, zMult = 4, window = 5
ExampleConfig == [win |-> 5, minPct |-> <<3, 1000>>, z |-> R(4), cool |-> 45]

UniStart ==
  /\ upc = "build"
  /\ u1 = <<>>
  /\ u2 = <<>>
  /\ u3 = <<>>
  /\ requested = {}
  /\ detailRows = <<>>
  /\ universe = {}
  /\ useSet = {}
  /\ nBuilds = 0
  /\ failedSrc = {}
  /\ buildThrew = FALSE

UniIdle ==
  /\ uCfg = [variant |-> "merge", zeroFeeOnly |-> FALSE, fallbackToAll |-> FALSE,
             maxTakerFee |-> 0, whitelist |-> {}, override |-> {}, force |-> "",
             minUniverse |-> 0]
  /\ UniStart

\* null, for a number that is not there
Null == <<0, 0>>

\* the defaults of the TRAIL_* and CONFLUENCE_* settings
TrailDefaults == [enable |-> TRUE, startPct |-> <<3, 1000>>, distPct |-> <<4, 1000>>]

ConfDefaults ==
  [on |-> TRUE, useEma |-> TRUE, ordering |-> TRUE,
   k1 |-> 3, k3 |-> 2, k15 |-> 1,
   dz1 |-> <<2, 10000>>, dz3 |-> <<15, 100000>>, dz15 |-> <<1, 10000>>,
   zmin |-> R(2), distMax |-> <<12, 1000>>, cool |-> 180, history |-> 90]

NoTick == [sym |-> "-", price |-> 0, ts |-> 0, accepted |-> FALSE]

ScanStart ==
  /\ cdSpike = <<>>
  /\ trails = <<>>
  /\ books = <<>>
  /\ maState = <<>>
  /\ cdConfluence = <<>>
  /\ emitted = <<>>
  /\ tick = NoTick
  /\ clock = 0
  /\ nMsgs = 0

ScanIdle ==
  /\ trailImpl = "updateTrail"
  /\ trailCfg = TrailDefaults
  /\ confCfg = ConfDefaults
  /\ ScanStart

TMDefaults == [startPct |-> <<3, 1000>>, distancePct |-> <<4, 1000>>,
               stepPct |-> <<1, 1000>>]

NoTMCall == [op |-> "-", symbol |-> "-", price |-> 0, notified |-> FALSE,
             side |-> "-", stop |-> Null]

TMStart ==
  /\ positions = <<>>
  /\ tmRet = NoTMCall
  /\ nCalls = 0

TMIdle ==
  /\ tmCfg = TMDefaults
  /\ TMStart

MADefaults == [enable |-> FALSE, limit |-> 150, cool |-> 120]

FrameNames == {"1m", "3m", "15m"}

MAStart ==
  /\ tracked = {}
  /\ agg = [n \in FrameNames |-> <<>>]
  /\ emaStore = <<>>
  /\ slopeStore = <<>>
  /\ lastAlert = <<>>
  /\ closes = <<>>
  /\ nBarTicks = 0

MAIdle ==
  /\ maCfg = MADefaults
  /\ MAStart

\* UNIVERSE_REFRESH_SEC = 600 and no alert sink configured
FeedDefaults == [refresh |-> 600000, webhook |-> FALSE, telegram |-> FALSE, sse |-> "none"]

NoConn == [ws |-> "none", ping |-> FALSE, untilTs |-> 0, retry |-> FALSE]

NoMsg == [kind |-> "-", ts |-> 0, data |-> <<>>]

\* no stopped socket, and no message received on one
NoStale == [socks |-> {}, got |-> 0]

FeedStart ==
  /\ conn = NoConn
  /\ dateNow = 0
  /\ msg = NoMsg
  /\ priceHist = <<>>
  /\ pending = 0
  /\ posts = 0
  /\ nConn = 0
  /\ nClose = 0
  /\ stale = NoStale

NoExecCall == [op |-> "-", dryRun |-> FALSE]

\* levCache = new Map(), nothing fetched, nothing called
LevStart == [cache |-> <<>>, flights |-> {}, ret |-> [op |-> "-"], now |-> 0, n |-> 0]

ExecStart ==
  /\ requests = <<>>
  /\ execRet = NoExecCall
  /\ nExec = 0
  /\ lev = LevStart

RestIdle ==
  /\ feedCfg = FeedDefaults
  /\ FeedStart
  /\ execCfg = [execute |-> TRUE]
  /\ ExecStart

-----------------------------------------------------------------------------
(* Spike detector: class SpikeEngine *)

Symbols == {"BTC_USDT", "ETH_USDT"}

Prices == {4, 5, 6}

Times == {k * 1000 : k \in 0..MaxTime}

\* constructor(win, minPct, z, cooldown): the tunables, supplied at startup
SpikeConfigs ==
  { [win |-> 5, minPct |-> <<3, 1000>>, z |-> R(4), cool |-> 2],
    [win |-> 5, minPct |-> <<2, 1000>>, z |-> R(3), cool |-> 1],
    [win |-> 5, minPct |-> <<0, 1>>,    z |-> R(1), cool |-> 1],
    [win |-> 1, minPct |-> <<3, 1000>>, z |-> R(1), cool |-> 2],
    [win |-> 1, minPct |-> <<0, 1>>,    z |-> R(1), cool |-> 1],
    [win |-> 2, minPct |-> <<1, 5>>,    z |-> R(1), cool |-> 1] }

ExampleTicks == << [price |-> 200, ts |-> 0], [price |-> 201, ts |-> 1000],
                   [price |-> 214, ts |-> 2000] >>

\* Map.set(k, v)
MapSet(m, k, v) == [x \in (DOMAIN m) \cup {k} |-> IF x = k THEN v ELSE m[x]]

\* const a = 2/(this.win+1)
Alpha(win) == RDiv(R(2), R(win + 1))

\* const dp = pct(price, prev.p); pct = (a,b) => (b>0 ? (a-b)/b : 0)
Pct(price, prevp) == IF prevp > 0 THEN RDiv(R(price - prevp), R(prevp)) ELSE R(0)

\* const ew = a*ap + (1-a)*base
EwmaNextNoDecay(a, ap, base) == RAdd(RMul(a, ap), base)

EwmaNext(a, ap, base) == RAdd(RMul(a, ap), RMul(RSub(R(1), a), base))

\* const dyn = Math.max(this.minPct, this.z*ew); a threshold that is the floor
\* alone, for comparison
ThresholdFloorOnly(minPct, z, ew) == minPct

Threshold(minPct, z, ew) == RMax(minPct, RMul(z, ew))

\* if (ts < until) return { is:false }
BlockedNever(until, ts) == FALSE

Blocked(until, ts) == ts < until

\* z: ew>0 ? ap/ew : 999
ZScore(ap, ew) == IF RLt(R(0), ew) THEN RDiv(ap, ew) ELSE R(999)

NoSpikeRet == [ret |-> "object", is |-> FALSE, dir |-> "-", ap |-> R(0), z |-> R(0)]

\* update(sym, price, ts): the engine after the call and the value returned
SpikeUpdate(c, eng, sym, price, ts) ==
  LET hasPrev == sym \in DOMAIN eng.last
      last1 == MapSet(eng.last, sym, [p |-> price, t |-> ts])
  IN IF ~hasPrev \/ eng.last[sym].p <= 0
       THEN [eng |-> [eng EXCEPT !.last = last1], res |-> NullRet]
       ELSE
         LET dp == Pct(price, eng.last[sym].p)
             ap == RAbs(dp)
             a == Alpha(c.win)
             base == IF sym \in DOMAIN eng.ewma THEN eng.ewma[sym] ELSE ap
             ew == EwmaNext(a, ap, base)
             ewma1 == MapSet(eng.ewma, sym, ew)
             dyn == Threshold(c.minPct, c.z, ew)
             until == IF sym \in DOMAIN eng.block THEN eng.block[sym] ELSE 0
         IN IF RLt(ap, dyn) \/ Blocked(until, ts)
              THEN [eng |-> [eng EXCEPT !.last = last1, !.ewma = ewma1],
                    res |-> NoSpikeRet]
              ELSE [eng |-> [last |-> last1, ewma |-> ewma1,
                             block |-> MapSet(eng.block, sym, ts + c.cool * 1000)],
                    res |-> [ret |-> "object", is |-> TRUE,
                             dir |-> IF RLe(R(0), dp) THEN "UP" ELSE "DOWN",
                             ap |-> ap, z |-> ZScore(ap, ew)]]

\* the absPct the call computed, when it computed one
ObservedAp(eng, sym, price) ==
  IF sym \in DOMAIN eng.last /\ eng.last[sym].p > 0
    THEN {RAbs(Pct(price, eng.last[sym].p))} ELSE {}

\* one call of spike.update and the bookkeeping of what was observed
FeedSpike(sym, price, ts) ==
  LET r == SpikeUpdate(spikeCfg, spike, sym, price, ts)
      obs == ObservedAp(spike, sym, price)
  IN /\ spike' = r.eng
     /\ out' = [sym |-> sym, price |-> price, ts |-> ts,
                prevp |-> IF sym \in DOMAIN spike.last THEN spike.last[sym].p ELSE 0,
                res |-> r.res]
     /\ fired' = IF r.res.is THEN Append(fired, <<sym, ts>>) ELSE fired
     /\ maxAp' = IF obs = {} THEN maxAp
                 ELSE LET ap == CHOOSE x \in obs : TRUE
                      IN MapSet(maxAp, sym,
                                IF sym \in DOMAIN maxAp THEN RMax(maxAp[sym], ap) ELSE ap)

SpikeInit ==
  /\ spikeCfg \in SpikeConfigs
  /\ SpikeStart
  /\ UniIdle
  /\ ScanIdle
  /\ TMIdle
  /\ MAIdle
  /\ RestIdle

Update ==
  /\ nTicks < MaxTicks
  /\ \E sym \in Symbols, price \in Prices, ts \in Times : FeedSpike(sym, price, ts)
  /\ nTicks' = nTicks + 1
  /\ UNCHANGED <<spikeCfg, scriptPos>>
  /\ UNCHANGED nonSpikeVars

SpikeNext == Update

SpecSpike == SpikeInit /\ [][SpikeNext]_vars

\* the example scenario, interleaved with ticks of the other symbols
ExampleInit ==
  /\ spikeCfg = ExampleConfig
  /\ SpikeStart
  /\ UniIdle
  /\ ScanIdle
  /\ TMIdle
  /\ MAIdle
  /\ RestIdle

ScriptTick ==
  /\ scriptPos < Len(ExampleTicks)
  /\ FeedSpike("BTC_USDT", ExampleTicks[scriptPos + 1].price, ExampleTicks[scriptPos + 1].ts)
  /\ scriptPos' = scriptPos + 1
  /\ UNCHANGED <<spikeCfg, nTicks>>
  /\ UNCHANGED nonSpikeVars

OtherTick ==
  /\ nTicks < MaxTicks
  /\ \E sym \in Symbols \ {"BTC_USDT"}, price \in Prices, ts \in Times :
        FeedSpike(sym, price, ts)
  /\ nTicks' = nTicks + 1
  /\ UNCHANGED <<spikeCfg, scriptPos>>
  /\ UNCHANGED nonSpikeVars

ExampleNext == ScriptTick \/ OtherTick

SpecExample == ExampleInit /\ [][ExampleNext]_vars

\* the detector with a multiplier that outweighs the smoothing factor:
\* z * 2/(win+1) is 4/3, 2 and, with WINDOW_SEC=0, 2
DampedConfigs ==
  { [win |-> 5, minPct |-> <<3, 1000>>, z |-> R(4), cool |-> 1],
    [win |-> 5, minPct |-> <<0, 1>>,    z |-> R(4), cool |-> 1],
    [win |-> 1, minPct |-> <<0, 1>>,    z |-> R(2), cool |-> 1],
    [win |-> 0, minPct |-> <<0, 1>>,    z |-> R(1), cool |-> 1] }

DampedInit ==
  /\ spikeCfg \in DampedConfigs
  /\ SpikeStart
  /\ UniIdle
  /\ ScanIdle
  /\ TMIdle
  /\ MAIdle
  /\ RestIdle

SpecDamped == DampedInit /\ [][SpikeNext]_vars

-----------------------------------------------------------------------------
(* Claims about the spike detector *)

\* zMult * 2/(window+1) > 1
Outweighs(c) == RLt(R(1), RMul(c.z, Alpha(c.win)))

\* the last call had a previous price to compare with, and a different one
PriceMoved == out.prevp > 0 /\ out.price # out.prevp

\* C36, as stated: when zMult * 2/(window+1) > 1, update returns no spike for a
\* tick whose price differs from the previous price.
C36_NoSpikeOnPriceChange ==
  (Outweighs(spikeCfg) /\ PriceMoved) => ~out.res.is

\* C36, amended: when zMult * 2/(window+1) > 1 and window >= 1 (so that the
\* smoothing factor is at most 1), update returns no spike for a tick whose
\* price differs from the previous price.
C36_NoSpikeWhenSmoothing ==
  (Outweighs(spikeCfg) /\ spikeCfg.win >= 1 /\ PriceMoved) => ~out.res.is

C36_MovedWithoutSpike ==
  /\ Outweighs(spikeCfg)
  /\ spikeCfg.win >= 1
  /\ PriceMoved
  /\ out.res = NoSpikeRet
  /\ nTicks = MaxTicks

\* C1: any two calls of update that return a spike for the same symbol have
\* timestamps at least cooldownSec * 1000 ms apart.
C1_CooldownEnforced ==
  \A i, j \in DOMAIN fired :
    (i < j /\ fired[i][1] = fired[j][1])
      => IAbs(fired[j][2] - fired[i][2]) >= spikeCfg.cool * 1000

C1_TwoSpikesOneSymbol ==
  \E i, j \in DOMAIN fired : i < j /\ fired[i][1] = fired[j][1]

\* C2: after the example ticks 100, 100.5, 107 for BTC_USDT, the third call
\* returns a spike with direction UP.
C2_ExampleThirdTickFires ==
  (scriptPos = Len(ExampleTicks) /\ out.sym = "BTC_USDT")
    => (out.res.is /\ out.res.dir = "UP")

\* C3: an update whose price equals the previous price of the symbol (pct = 0)
\* never returns a spike, whatever the floor, multiplier and window.
C3_ZeroPctNeverFires ==
  (out.prevp > 0 /\ out.price = out.prevp) => ~out.res.is

C21_EwmaEveryTick ==
  [][ nTicks' = nTicks + 1 =>
        /\ out'.sym \in DOMAIN spike'.last
        /\ spike'.last[out'.sym].p = out'.price
        /\ \A s \in DOMAIN spike.last \ {out'.sym} :
              spike'.last[s] = spike.last[s]
        /\ IF out'.sym \notin DOMAIN spike.last
             THEN /\ ~out'.res.is
                  /\ spike'.ewma = spike.ewma
                  /\ spike'.block = spike.block
             ELSE /\ out'.sym \in DOMAIN spike'.ewma
                  /\ spike'.ewma[out'.sym] =
                       RAdd(RMul(<<2, spikeCfg.win + 1>>,
                                 RAbs(<<out'.price - spike.last[out'.sym].p,
                                        spike.last[out'.sym].p>>)),
                            RMul(<<spikeCfg.win - 1, spikeCfg.win + 1>>,
                                 IF out'.sym \in DOMAIN spike.ewma
                                   THEN spike.ewma[out'.sym]
                                   ELSE RAbs(<<out'.price - spike.last[out'.sym].p,
                                               spike.last[out'.sym].p>>))) ]_vars

\* a tick with a price change that is held back by the cooldown
C21_TickInsideCooldown ==
  /\ out.prevp > 0
  /\ out.price # out.prevp
  /\ ~out.res.is
  /\ out.sym \in DOMAIN spike.block
  /\ out.ts < spike.block[out.sym]
  /\ RLe(Threshold(spikeCfg.minPct, spikeCfg.z, spike.ewma[out.sym]),
         RAbs(Pct(out.price, out.prevp)))

-----------------------------------------------------------------------------
(* Universe builder: buildUniverse / finalize and the runLoop around it *)

\* Fee rates are counted in units of 1e-13; <<0, 0>> stands for a fee field that
\* is missing or not a finite number.
NaN == <<0, 0>>

IsFinite(x) == x[2] # 0

\* the 1e-12 tolerance of isZeroFeeRow, in fee units
FeeTolerance == 10

\* the floor below which the next source is asked
Floor == 10

CatalogSymbols ==
  <<"S01", "S02", "S03", "S04", "S05", "S06", "S07", "S08", "S09", "S10", "S11", "S12">>

CleanRow(i) ==
  [symbol |-> CatalogSymbols[i], state |-> 0, apiAllowed |-> TRUE,
   takerFeeRate |-> R(0), makerFeeRate |-> R(0)]

MixedRow(i) ==
  [symbol |-> CatalogSymbols[i],
   state |-> IF i % 4 = 0 THEN 1 ELSE 0,
   apiAllowed |-> (i % 5 # 0),
   takerFeeRate |-> IF i % 3 = 0 THEN R(2000000) ELSE R(0),
   makerFeeRate |-> IF i % 7 = 0 THEN NaN ELSE IF i % 2 = 0 THEN R(5) ELSE R(20)]

ZeroFeeRow(i) ==
  [symbol |-> CatalogSymbols[i], state |-> 0, apiAllowed |-> TRUE,
   takerFeeRate |-> IF i = 2 THEN R(2000000) ELSE R(0), makerFeeRate |-> R(5)]

Ok(rows) == [kind |-> "ok", rows |-> rows]

\* a request fails by rejecting (network error) or by answering without a
\* usable body (HTTP error status, unparsable JSON)
Rejected == [kind |-> "throw", rows |-> <<>>]

NotOk == [kind |-> "notok", rows |-> <<>>]

DetailResponses ==
  {Rejected, NotOk}
    \cup {Ok([i \in 1..n |-> CleanRow(i)]) : n \in {0, 3, 9, 10, 12}}
    \cup {Ok([i \in 1..n |-> MixedRow(i)]) : n \in {6, 12}}
    \cup {Ok([i \in 1..n |-> ZeroFeeRow(i)]) : n \in {3}}

SymRow(sym) == [symbol |-> sym]

TickerResponses ==
  {Rejected, NotOk, Ok(<<>>),
   Ok(<<SymRow("S01"), SymRow("S02"), SymRow("T1")>>),
   Ok([i \in 1..7 |-> SymRow(CatalogSymbols[i])]),
   Ok([i \in 1..10 |-> SymRow(CatalogSymbols[i])])}

SymbolsResponses ==
  {Rejected, NotOk, Ok(<<>>), Ok(<<SymRow("S01"), SymRow("U1"), SymRow("U2")>>)}

ToSet(list) == {list[i] : i \in DOMAIN list}

SymbolsOf(rows) == [i \in DOMAIN rows |-> rows[i].symbol]

FeeMax(x, y) == IF x[1] * y[2] < y[1] * x[2] THEN y ELSE x

\* isZeroFeeRow(row): both fees finite and max(taker, maker) <= MAX_TAKER_FEE + 1e-12
isZeroFeeRow(c, row) ==
  /\ IsFinite(row.takerFeeRate)
  /\ IsFinite(row.makerFeeRate)
  /\ RLe(FeeMax(row.takerFeeRate, row.makerFeeRate), R(c.maxTakerFee + FeeTolerance))

\* isZeroFeeContract(row) of the detail-only build: a missing fee counts as 0
isZeroFeeContract(c, row) ==
  LET taker == IF IsFinite(row.takerFeeRate) THEN row.takerFeeRate ELSE R(0)
      maker == IF IsFinite(row.makerFeeRate) THEN row.makerFeeRate ELSE R(0)
  IN RLe(FeeMax(taker, maker), R(c.maxTakerFee + FeeTolerance))

\* the loop of universeFromDetail: which rows are kept
KeepRow(c, r) ==
  /\ r.state = 0
  /\ r.apiAllowed
  /\ (c.zeroFeeOnly => isZeroFeeRow(c, r))

\* universeFromDetail(): [] unless the answer is ok and parsed
universeFromDetail(c, resp) ==
  IF resp.kind # "ok" THEN <<>>
  ELSE SymbolsOf(SelectSeq(resp.rows, LAMBDA r : KeepRow(c, r)))

\* universeFromTicker(), universeFromSymbols()
universeFromList(resp) == IF resp.kind # "ok" THEN <<>> ELSE SymbolsOf(resp.rows)

\* buildUniverse of the detail-only worker: the whitelist only lifts the fee filter
KeepRowDetailOnly(c, r) ==
  /\ r.state = 0
  /\ r.apiAllowed
  /\ (c.zeroFeeOnly => (r.symbol \in c.whitelist \/ isZeroFeeContract(c, r)))

buildUniverseDetailOnly(c, resp) ==
  ToSet(SymbolsOf(SelectSeq(resp.rows, LAMBDA r : KeepRowDetailOnly(c, r))))

\* if (u1.length < 10) ask contract/ticker
NeedTickerOffByOne(list1) == Len(list1) <= Floor

NeedTicker(list1) == Len(list1) < Floor

\* if (u1.length + u2.length < 10) ask contract/symbols
NeedSymbols(list1, list2) == Len(list1) + Len(list2) < Floor

\* the tail of buildUniverse (src/index.js) after the three sources were merged;
\* first with a fallback to the unfiltered merge
MergeTailToAll(c, list1, merged) ==
  LET m1 == IF c.zeroFeeOnly THEN {s \in merged : s \in ToSet(list1)} ELSE merged
      m2 == IF c.whitelist # {} THEN m1 \cup c.whitelist ELSE m1
      m3 == IF c.override # {} THEN m2 \cup c.override ELSE m2
  IN IF m3 = {} /\ c.fallbackToAll THEN merged ELSE m3

MergeTail(c, list1, merged) ==
  LET m1 == IF c.zeroFeeOnly THEN {s \in merged : s \in ToSet(list1)} ELSE merged
      m2 == IF c.whitelist # {} THEN m1 \cup c.whitelist ELSE m1
      m3 == IF c.override # {} THEN m2 \cup c.override ELSE m2
  IN IF m3 = {} /\ c.fallbackToAll /\ c.whitelist # {} THEN c.whitelist ELSE m3

\* finalize(list) of the guarded worker: no fee filter on the merged list
finalize(c, merged) ==
  LET m2 == IF c.whitelist # {} THEN merged \cup c.whitelist ELSE merged
      m3 == IF c.override # {} THEN m2 \cup c.override ELSE m2
  IN IF m3 = {} /\ c.fallbackToAll
       THEN (IF c.whitelist # {} THEN c.whitelist ELSE {})
       ELSE m3

\* the requests of this build that failed so far: fetch rejected, or getJSON
\* came back not ok or without a parsed body
Failures(failed, src, resp) == IF resp.kind # "ok" THEN failed \cup {src} ELSE failed

\* what buildUniverse returns once the last source has answered
BuildResult(c, list1, list2, list3) ==
  LET merged == ToSet(list1) \cup ToSet(list2) \cup ToSet(list3)
  IN IF c.variant = "merge" THEN MergeTail(c, list1, merged) ELSE finalize(c, merged)

\* the workers: "merge" is src/index.js, "finalize" the guarded worker with
\* FORCE_UNIVERSE_MODE and MIN_UNIVERSE, "detail" the detail-only worker; "run"
\* is the worker that builds once and reconnects from the close handler
UniverseConfigs ==
  { c \in [variant : {"merge", "finalize", "detail"},
           zeroFeeOnly : BOOLEAN, fallbackToAll : BOOLEAN,
           maxTakerFee : {0},
           whitelist : {{}, {"X_USDT"}, {"S02", "X_USDT"}},
           override : {{}, {"O_USDT"}},
           force : {"", "FULL", "DETAIL"},
           minUniverse : {0, 3, 50}] :
      /\ (c.variant # "finalize" => (c.force = "" /\ c.minUniverse = 0))
      /\ (c.variant = "finalize" => c.minUniverse # 0)
      /\ (c.variant = "detail" => c.override = {}) }

\* the guard of the guarded worker skipped
GuardFailsNever(c, list) == FALSE

\* if (set.size < MIN_UNIVERSE) process.exit(2), in the guarded worker only
GuardFails(c, list) == c.variant = "finalize" /\ Cardinality(list) < c.minUniverse

\* runLoop after `universe = await buildUniverse()` settled with list `u`
\* (threw = TRUE: the catch left universe = [])
AfterBuild(u, threw) ==
  LET list == IF threw THEN {} ELSE u
  IN /\ universe' = list
     /\ buildThrew' = threw
     /\ IF uCfg.variant = "run"
          THEN \* run() only warns about an empty universe and connects
               upc' = "connected" /\ useSet' = list
          ELSE IF uCfg.variant = "detail"
          THEN IF uCfg.zeroFeeOnly /\ list = {}
                 THEN upc' = "sleep" /\ useSet' = useSet
                 ELSE upc' = "connected" /\ useSet' = list
          ELSE IF list = {}
                 THEN upc' = "sleep" /\ useSet' = useSet
                 ELSE IF GuardFails(uCfg, list)
                        THEN upc' = "exited" /\ useSet' = list
                        ELSE upc' = "connected" /\ useSet' = list

\* top of the while loop: buildUniverse() issues its first request
RunLoopBuild ==
  /\ upc = "build"
  /\ nBuilds < MaxBuilds
  /\ nBuilds' = nBuilds + 1
  /\ u1' = <<>> /\ u2' = <<>> /\ u3' = <<>> /\ detailRows' = <<>>
  /\ failedSrc' = {} /\ buildThrew' = FALSE
  /\ IF uCfg.force = "FULL"
       THEN upc' = "symbols" /\ requested' = {"symbols"}
       ELSE upc' = "detail" /\ requested' = {"detail"}
  /\ UNCHANGED <<uCfg, universe, useSet>>
  /\ UNCHANGED nonUniVars

\* contract/detail answers (or fails)
DetailResponse ==
  /\ upc = "detail"
  /\ \E resp \in DetailResponses :
       /\ detailRows' = resp.rows
       /\ failedSrc' = Failures(failedSrc, "detail", resp)
       /\ IF uCfg.variant = "detail"
            THEN \* fetchUniverseRaw throws on a failed request or a bad body
                 /\ u1' = IF resp.kind = "ok"
                            THEN SymbolsOf(SelectSeq(resp.rows,
                                   LAMBDA r : KeepRowDetailOnly(uCfg, r)))
                            ELSE <<>>
                 /\ AfterBuild(buildUniverseDetailOnly(uCfg, resp), resp.kind # "ok")
                 /\ UNCHANGED <<u2, u3, requested>>
            ELSE IF uCfg.force = "DETAIL"
              THEN /\ u1' = universeFromDetail(uCfg, resp)
                   /\ AfterBuild(finalize(uCfg, ToSet(universeFromDetail(uCfg, resp))),
                                 resp.kind = "throw")
                   /\ UNCHANGED <<u2, u3, requested>>
              ELSE LET l1 == universeFromDetail(uCfg, resp)
                   IN /\ u1' = l1
                      /\ UNCHANGED <<u2, u3>>
                      /\ IF NeedTicker(l1)
                           THEN /\ upc' = "ticker"
                                /\ requested' = requested \cup {"ticker"}
                                /\ UNCHANGED <<universe, useSet, buildThrew>>
                           ELSE IF NeedSymbols(l1, <<>>)
                             THEN /\ upc' = "symbols"
                                  /\ requested' = requested \cup {"symbols"}
                                  /\ UNCHANGED <<universe, useSet, buildThrew>>
                             ELSE /\ AfterBuild(BuildResult(uCfg, l1, <<>>, <<>>), FALSE)
                                  /\ UNCHANGED requested
  /\ UNCHANGED <<uCfg, nBuilds>>
  /\ UNCHANGED nonUniVars

\* contract/ticker answers (or fails)
TickerResponse ==
  /\ upc = "ticker"
  /\ \E resp \in TickerResponses :
       LET l2 == universeFromList(resp)
       IN /\ u2' = l2
          /\ failedSrc' = Failures(failedSrc, "ticker", resp)
          /\ IF uCfg.force = "FULL"
               THEN \* unique([...symbols, ...ticker]); a rejected request throws
                    /\ AfterBuild(finalize(uCfg, ToSet(u3) \cup ToSet(l2)),
                                  resp.kind = "throw")
                    /\ UNCHANGED requested
               ELSE IF NeedSymbols(u1, l2)
                 THEN /\ upc' = "symbols"
                      /\ requested' = requested \cup {"symbols"}
                      /\ UNCHANGED <<universe, useSet, buildThrew>>
                 ELSE /\ AfterBuild(BuildResult(uCfg, u1, l2, <<>>), FALSE)
                      /\ UNCHANGED requested
  /\ UNCHANGED <<uCfg, u1, u3, detailRows, nBuilds>>
  /\ UNCHANGED nonUniVars

\* contract/symbols answers (or fails)
SymbolsResponse ==
  /\ upc = "symbols"
  /\ \E resp \in SymbolsResponses :
       LET l3 == universeFromList(resp)
       IN /\ u3' = l3
          /\ failedSrc' = Failures(failedSrc, "symbols", resp)
          /\ IF uCfg.force = "FULL"
               THEN IF resp.kind = "throw"
                      THEN AfterBuild({}, TRUE) /\ UNCHANGED requested
                      ELSE /\ upc' = "ticker"
                           /\ requested' = requested \cup {"ticker"}
                           /\ UNCHANGED <<universe, useSet, buildThrew>>
               ELSE /\ AfterBuild(BuildResult(uCfg, u1, u2, l3), FALSE)
                    /\ UNCHANGED requested
  /\ UNCHANGED <<uCfg, u1, u2, detailRows, nBuilds>>
  /\ UNCHANGED nonUniVars

\* await sleep(UNIVERSE_REFRESH_SEC*1000); continue
SleepDone ==
  /\ upc = "sleep"
  /\ upc' = "build"
  /\ UNCHANGED <<uCfg, u1, u2, u3, requested, detailRows, universe, useSet, nBuilds,
                 failedSrc, buildThrew>>
  /\ UNCHANGED nonUniVars

\* stop(): the refresh deadline passed or the socket closed; the loop iterates
ConnectionStop ==
  /\ upc = "connected"
  /\ upc' = "build"
  /\ UNCHANGED <<uCfg, u1, u2, u3, requested, detailRows, universe, useSet, nBuilds,
                 failedSrc, buildThrew>>
  /\ UNCHANGED nonUniVars

UniInit ==
  /\ uCfg \in UniverseConfigs
  /\ UniStart
  /\ spikeCfg = ExampleConfig
  /\ SpikeStart
  /\ ScanIdle
  /\ TMIdle
  /\ MAIdle
  /\ RestIdle

UniNext ==
  \/ RunLoopBuild
  \/ DetailResponse
  \/ TickerResponse
  \/ SymbolsResponse
  \/ SleepDone
  \/ ConnectionStop

SpecUniverse == UniInit /\ [][UniNext]_vars

-----------------------------------------------------------------------------
(* Claims about the universe builder *)

BuildDone == nBuilds > 0 /\ upc \in {"sleep", "connected", "exited"}

\* C8: in every build, when contract/detail yields at least 10 kept symbols,
\* neither contract/ticker nor contract/symbols is requested during that build.
C8_PrimaryEnoughNoFallback ==
  Len(u1) >= Floor => requested \cap {"ticker", "symbols"} = {}

C8_PrimaryEnoughBuilt == Len(u1) >= Floor /\ upc = "connected"

\* the primary-catalog symbols that are active, API-allowed and whose
\* max(taker, maker) fee is within the ceiling
EligibleZeroFee ==
  { detailRows[i].symbol : i \in
      { j \in DOMAIN detailRows :
          /\ detailRows[j].state = 0
          /\ detailRows[j].apiAllowed
          /\ IsFinite(detailRows[j].takerFeeRate)
          /\ IsFinite(detailRows[j].makerFeeRate)
          /\ detailRows[j].takerFeeRate[1] <= uCfg.maxTakerFee + FeeTolerance
          /\ detailRows[j].makerFeeRate[1] <= uCfg.maxTakerFee + FeeTolerance } }

\* C9: with zero-fee-only on, the universe a three-source build returns is
\* whitelist + override + the eligible zero-fee symbols of the primary catalog.
C9_ZeroFeeUniverseExact ==
  (BuildDone /\ uCfg.zeroFeeOnly /\ uCfg.variant \in {"merge", "finalize"}
     /\ uCfg.force = "" )
    => universe = uCfg.whitelist \cup uCfg.override \cup EligibleZeroFee

\* C10: every whitelist and override symbol is in the Set runLoop connects with,
\* whatever the sources returned.
C10_WhitelistAlwaysIn ==
  upc = "connected" => (uCfg.whitelist \cup uCfg.override) \subseteq useSet

\* C11: runLoop never opens the feed WebSocket in an iteration whose built
\* universe is empty, whether the build returned [] or threw, with zero-fee-only
\* on or off.
C11_NoFeedOnEmptyUniverse ==
  upc = "connected" => universe # {}

\* the symbols the sources of this build returned that the build's own fee
\* filter lets through: with zero-fee-only the merge keeps detail symbols only
Obtained ==
  IF uCfg.variant = "merge" /\ uCfg.zeroFeeOnly
    THEN ToSet(u1)
    ELSE ToSet(u1) \cup ToSet(u2) \cup ToSet(u3)

\* C12: when a request of a build fails, the build does not throw and the
\* symbols the other sources of the same build returned are in the result.
C12_SourceFailureAbsorbed ==
  (BuildDone /\ uCfg.variant \in {"merge", "finalize"} /\ failedSrc # {})
    => (~buildThrew /\ Obtained \subseteq universe)

\* C33: a build of buildUniverse whose primary and secondary sources gave fewer
\* than 10 distinct symbols between them asks contract/symbols and, unless the
\* zero-fee filter drops them, has its symbols in the result.
C33_TertiaryWhenFewDistinct ==
  (BuildDone /\ uCfg.variant = "merge"
     /\ Cardinality(ToSet(u1) \cup ToSet(u2)) < Floor)
    => /\ "symbols" \in requested
       /\ (~uCfg.zeroFeeOnly => ToSet(u3) \subseteq universe)

\* the same settings with FALLBACK_TO_ALL the other way
Flipped(c) == [c EXCEPT !.fallbackToAll = ~@]

\* what the build returns from the lists of its sources under the settings c
Returned(c, list1, list2, list3) ==
  IF c.variant = "finalize" /\ c.force = "DETAIL" THEN finalize(c, ToSet(list1))
  ELSE IF c.variant = "finalize" /\ c.force = "FULL"
    THEN finalize(c, ToSet(list3) \cup ToSet(list2))
  ELSE BuildResult(c, list1, list2, list3)

\* C40: FALLBACK_TO_ALL has no effect on what buildUniverse returns: from the
\* same source results, whitelist and override the build returns the same
\* universe with the flag the other way.
C40_FallbackFlagInert ==
  (BuildDone /\ uCfg.variant \in {"merge", "finalize"} /\ ~buildThrew)
    => /\ universe = Returned(uCfg, u1, u2, u3)
       /\ universe = Returned(Flipped(uCfg), u1, u2, u3)

\* a build with the flag set that ended empty although a source had symbols
C40_EmptyDespiteFlag ==
  /\ BuildDone
  /\ uCfg.variant = "merge"
  /\ uCfg.fallbackToAll
  /\ ~buildThrew
  /\ universe = {}
  /\ u2 # <<>>

\* C20: in the guarded runLoop a non-empty universe smaller than MIN_UNIVERSE
\* ends in process.exit(2) and never in a feed connection; an empty universe
\* never takes this exit, it sleeps and the build is retried.
C20_SmallUniverseExits ==
  uCfg.variant = "finalize" =>
    /\ (upc = "connected" => Cardinality(universe) >= uCfg.minUniverse)
    /\ (upc = "exited" => (universe # {} /\ Cardinality(universe) < uCfg.minUniverse))
    /\ ((BuildDone /\ universe = {}) => upc = "sleep")
    /\ ((BuildDone /\ universe # {} /\ Cardinality(universe) < uCfg.minUniverse)
          => upc = "exited")

C20_GuardExit ==
  /\ uCfg.variant = "finalize"
  /\ upc = "exited"
  /\ universe # {}
  /\ nBuilds = 2

-----------------------------------------------------------------------------
(* Advisory trailing stop: updateTrail and its callbacks *)

MapDel(m, k) == [x \in (DOMAIN m) \ {k} |-> m[x]]

kKeySymbolOnly(sym, isLong) == <<sym, TRUE>>

kKey(sym, isLong) == <<sym, isLong>>

SideName(isLong) == IF isLong THEN "long" ELSE "short"

\* x.toFixed(2) read back as a number: x rounded to hundredths, halves away from zero
ToFixed2(x) ==
  LET q == (IAbs(x[1]) * 200 + x[2]) \div (2 * x[2])
  IN Norm(IF x[1] < 0 THEN -q ELSE q, 100)

Alert(type, sym, side, price) ==
  [type |-> type, symbol |-> sym, side |-> side, price |-> price,
   entry |-> 0, peak |-> 0, trail |-> Null, pnl |-> Null]

NoTrailChange(tr) == [trails |-> tr, events |-> <<>>]

onEntry(tr, sym, isLong, price) ==
  [trails |-> MapSet(tr, kKey(sym, isLong),
                     [state |-> "armed", entry |-> price, peak |-> price, trail |-> Null]),
   events |-> << Alert("entry", sym, SideName(isLong), price) >>]

\* the stop that follows a peak
TrailOf(c, isLong, peak) ==
  IF isLong THEN RMul(R(peak), RSub(R(1), c.distPct))
            ELSE RMul(R(peak), RAdd(R(1), c.distPct))

onTrailArmed(c, tr, sym, isLong, st) ==
  LET st1 == [st EXCEPT !.state = "in_trail", !.trail = TrailOf(c, isLong, st.peak)]
  IN [trails |-> MapSet(tr, kKey(sym, isLong), st1),
      events |-> << [Alert("trail_armed", sym, SideName(isLong), 0) EXCEPT
                       !.entry = st1.entry, !.peak = st1.peak, !.trail = st1.trail] >>]

onTrailMoved(sym, isLong, st) ==
  [Alert("trail_move", sym, SideName(isLong), 0) EXCEPT
     !.peak = st.peak, !.trail = st.trail]

\* const pnlPct = (isLong ? (st.peak - st.entry)/st.entry : (st.entry - st.peak)/st.entry) * 100;
\* first the same from the stop instead of the peak
PnlPctAtStop(isLong, st) ==
  RMul(IF isLong THEN RDiv(RSub(st.trail, R(st.entry)), R(st.entry))
                 ELSE RDiv(RSub(R(st.entry), st.trail), R(st.entry)),
       R(100))

PnlPct(isLong, st) ==
  RMul(IF isLong THEN RDiv(R(st.peak - st.entry), R(st.entry))
                 ELSE RDiv(R(st.entry - st.peak), R(st.entry)),
       R(100))

onTrailExit(sym, isLong, st, price) ==
  [Alert("trail_exit", sym, SideName(isLong), price) EXCEPT
     !.entry = st.entry, !.peak = st.peak, !.trail = st.trail,
     !.pnl = ToFixed2(PnlPct(isLong, st))]

\* the size of the move from the entry, in either direction
FavEitherWay(isLong, price, entry) == RAbs(RDiv(R(price - entry), R(entry)))

\* the favourable move of an armed state, as a fraction of the entry
Fav(isLong, price, entry) ==
  IF isLong THEN RDiv(R(price - entry), R(entry)) ELSE RDiv(R(entry - price), R(entry))

\* in_trail: the price is a new extreme
MovedAnyPrice(isLong, price, peak) == price # peak

Moved(isLong, price, peak) == IF isLong THEN price > peak ELSE price < peak

\* in_trail: the price is at or beyond the stop
Hit(isLong, price, trail) ==
  IF isLong THEN RLe(R(price), trail) ELSE RLe(trail, R(price))

\* updateTrail(sym, dir, price): the trails Map after the call and the alerts it posted
updateTrail(c, tr, sym, dir, price) ==
  LET isLong == (dir = "UP")
      key == kKey(sym, isLong)
  IN IF ~c.enable THEN NoTrailChange(tr)
     ELSE IF key \notin DOMAIN tr THEN onEntry(tr, sym, isLong, price)
     ELSE LET st == tr[key]
          IN IF st.state = "armed"
               THEN IF RLe(c.startPct, Fav(isLong, price, st.entry))
                      THEN onTrailArmed(c, tr, sym, isLong, [st EXCEPT !.peak = price])
                      ELSE NoTrailChange(tr)
               ELSE IF st.state = "in_trail"
                 THEN LET moved == Moved(isLong, price, st.peak)
                          st1 == IF moved
                                   THEN [st EXCEPT !.peak = price,
                                                   !.trail = TrailOf(c, isLong, price)]
                                   ELSE st
                          ev1 == IF moved THEN << onTrailMoved(sym, isLong, st1) >> ELSE <<>>
                      IN IF Hit(isLong, price, st1.trail)
                           THEN [trails |-> MapDel(tr, key),
                                 events |-> ev1 \o << onTrailExit(sym, isLong, st1, price) >>]
                           ELSE [trails |-> MapSet(tr, key, st1), events |-> ev1]
                 ELSE NoTrailChange(tr)

-----------------------------------------------------------------------------
(* Candles and the inline confluence of the ticker handler *)

\* the fewest closed 1m bars the confluence block wants
MinBars == 30

NewBook == [m1 |-> <<>>, cur |-> <<>>]

getBook(bk, sym) == IF sym \in DOMAIN bk THEN bk[sym] ELSE NewBook

IMax(a, b) == IF a > b THEN a ELSE b

IMin(a, b) == IF a < b THEN a ELSE b

\* roll1m(sym, price, ts) on the book b; cur holds the open bar, if there is one
roll1m(history, b, price, ts) ==
  LET m == (ts \div 60000) * 60000
      fresh == [t |-> m, o |-> price, h |-> price, l |-> price, c |-> price, v |-> 1]
  IN IF b.cur = <<>>
       THEN [b EXCEPT !.cur = << fresh >>]
       ELSE IF b.cur[1].t # m
         THEN LET pushed == Append(b.m1, b.cur[1])
              IN [m1 |-> IF Len(pushed) > history THEN Tail(pushed) ELSE pushed,
                  cur |-> << fresh >>]
         ELSE [b EXCEPT !.cur = << [t |-> m, o |-> b.cur[1].o,
                                    h |-> IMax(b.cur[1].h, price),
                                    l |-> IMin(b.cur[1].l, price),
                                    c |-> price, v |-> b.cur[1].v + 1] >>]

RECURSIVE FoldBars(_, _, _)
FoldBars(bars, i, acc) ==
  IF i > Len(bars) THEN acc
  ELSE FoldBars(bars, i + 1, [acc EXCEPT !.h = IMax(acc.h, bars[i].h),
                                          !.l = IMin(acc.l, bars[i].l),
                                          !.v = acc.v + bars[i].v])

\* aggregateN(bars, n) for bars.length >= n: one bar out of the last n
aggregateN(bars, n) ==
  LET last == SubSeq(bars, Len(bars) - n + 1, Len(bars))
  IN FoldBars(last, 1, [t |-> last[1].t, o |-> last[1].o, h |-> last[1].o,
                        l |-> last[1].o, c |-> last[n].c, v |-> 0])

emaSeries(prev, value, len) ==
  IF prev = Null \/ prev[1] = 0 THEN value
  ELSE LET a == RDiv(R(2), R(len + 1))
       IN RAdd(RMul(a, value), RMul(RSub(R(1), a), prev))

RECURSIVE RSum(_)
RSum(q) == IF q = <<>> THEN R(0) ELSE RAdd(Head(q), RSum(Tail(q)))

\* smaSeries(windowArr, len, value): the window after the call and the mean
smaSeries(windowArr, len, value) ==
  LET pushed == Append(windowArr, value)
      win == IF Len(pushed) > len THEN Tail(pushed) ELSE pushed
  IN [win |-> win, val |-> RDiv(RSum(win), R(Len(win)))]

slopePct(curr, past) ==
  IF ~(past[2] # 0) \/ past[1] = 0 THEN R(0) ELSE RDiv(RSub(curr, past), past)

lag(histArr, k, fallback) ==
  IF Len(histArr) <= k THEN fallback ELSE histArr[Len(histArr) - k]

NewUnit == [ema |-> Null, smaWin |-> <<>>, hist |-> <<>>]

initMA == [len5 |-> NewUnit, len10 |-> NewUnit, len30 |-> NewUnit]

\* vol.std is kept as its square: only its sign and ratios to it are used
NewMA == [m1 |-> initMA, m3 |-> initMA, m15 |-> initMA,
          vol |-> [arr |-> <<>>, mean |-> R(0), var |-> R(0)]]

getMA(ma, sym) == IF sym \in DOMAIN ma THEN ma[sym] ELSE NewMA

\* computeMA(obj, close, len, useEMA): the unit after the call and the value
\* returned; first as it would be with the hist.push(close) of updateMAUnit
computeMARecording(obj, close, len, useEMA) ==
  IF useEMA
    THEN LET e == emaSeries(obj.ema, close, len)
         IN [obj |-> [obj EXCEPT !.ema = e, !.hist = Append(@, close)], val |-> e]
    ELSE LET r == smaSeries(obj.smaWin, len, close)
         IN [obj |-> [obj EXCEPT !.smaWin = r.win, !.hist = Append(@, close)],
             val |-> r.val]

computeMA(obj, close, len, useEMA) ==
  IF useEMA
    THEN LET e == emaSeries(obj.ema, close, len)
         IN [obj |-> [obj EXCEPT !.ema = e], val |-> e]
    ELSE LET r == smaSeries(obj.smaWin, len, close)
         IN [obj |-> [obj EXCEPT !.smaWin = r.win], val |-> r.val]

\* the values and the summed slope over k bars of one timeframe, from what its
\* three computeMA calls returned
FrameOf(r5, r10, r30, k) ==
  [fr |-> [len5 |-> r5.obj, len10 |-> r10.obj, len30 |-> r30.obj],
   m5 |-> r5.val, m10 |-> r10.val, m30 |-> r30.val,
   sl |-> RAdd(RAdd(slopePct(r5.val, lag(r5.obj.hist, k, r5.val)),
                    slopePct(r10.val, lag(r10.obj.hist, k, r10.val))),
               slopePct(r30.val, lag(r30.obj.hist, k, r30.val)))]

\* the three computeMA calls of one timeframe
computeFrame(fr, close, useEMA, k) ==
  FrameOf(computeMA(fr.len5, close, 5, useEMA), computeMA(fr.len10, close, 10, useEMA),
          computeMA(fr.len30, close, 30, useEMA), k)

RECURSIVE SqDev(_, _)
SqDev(q, mean) ==
  IF q = <<>> THEN R(0)
  ELSE RAdd(RMul(RSub(Head(q), mean), RSub(Head(q), mean)), SqDev(Tail(q), mean))

\* updateVolumeZ(st, volTick): st.vol after the call; the z-score returned is
\* dev / sqrt(var) when var > 0 and 0 otherwise
updateVolumeZ(vol, volTick) ==
  LET pushed == Append(vol.arr, R(volTick))
      arr == IF Len(pushed) > 30 THEN Tail(pushed) ELSE pushed
      mean == RDiv(RSum(arr), R(Len(arr)))
      var == RDiv(SqDev(arr, mean), R(Len(arr)))
  IN [vol |-> [arr |-> arr, mean |-> mean, var |-> var],
      dev |-> RSub(R(volTick), mean)]

\* volZ >= zmin, without taking the square root
VolOK(dev, var, zmin) ==
  IF ~RLt(R(0), var) THEN RLe(zmin, R(0))
  ELSE IF RLe(R(0), zmin)
    THEN RLe(R(0), dev) /\ RLe(RMul(RMul(zmin, zmin), var), RMul(dev, dev))
    ELSE RLe(R(0), dev) \/ RLe(RMul(dev, dev), RMul(RMul(zmin, zmin), var))

OrdUp(f) == RLt(f.m10, f.m5) /\ RLt(f.m30, f.m10)

OrdDown(f) == RLt(f.m5, f.m10) /\ RLt(f.m10, f.m30)

SlopeUp(f, dz) == RLt(dz, RDiv(f.sl, R(3)))

SlopeDown(f, dz) == RLt(RDiv(f.sl, R(3)), RSub(R(0), dz))

\* the side the three timeframes agree on, "-" when they do not
Side(c, f1, f3, f15) ==
  IF SlopeUp(f1, c.dz1) /\ SlopeUp(f3, c.dz3) /\ SlopeUp(f15, c.dz15) THEN "UP"
  ELSE IF SlopeDown(f1, c.dz1) /\ SlopeDown(f3, c.dz3) /\ SlopeDown(f15, c.dz15)
    THEN "DOWN" ELSE "-"

\* the decision of the confluence block, from the three timeframes f1, f3, f15,
\* the 15m close and what updateVolumeZ returned
Decide(c, ma, cd, sym, ts, close15, f1, f3, f15, vz) ==
  LET st1 == [m1 |-> f1.fr, m3 |-> f3.fr, m15 |-> f15.fr, vol |-> vz.vol]
      dist == RDiv(RAbs(RSub(close15, f15.m30)),
                   IF f15.m30[1] # 0 THEN f15.m30 ELSE close15)
      side == Side(c, f1, f3, f15)
      orderingOK == IF c.ordering
                      THEN IF side = "UP" THEN OrdUp(f1) /\ OrdUp(f3) /\ OrdUp(f15)
                           ELSE IF side = "DOWN"
                             THEN OrdDown(f1) /\ OrdDown(f3) /\ OrdDown(f15)
                             ELSE FALSE
                      ELSE TRUE
      volOK == VolOK(vz.dev, vz.vol.var, c.zmin)
      distOK == RLe(dist, c.distMax)
      unb == IF sym \in DOMAIN cd THEN cd[sym] ELSE 0
  IN IF side # "-" /\ orderingOK /\ volOK /\ distOK /\ ts >= unb
       THEN [ma |-> MapSet(ma, sym, st1),
             cd |-> MapSet(cd, sym, ts + c.cool * 1000),
             events |-> << Alert("confluence", sym, side, 0) >>]
       ELSE [ma |-> MapSet(ma, sym, st1), cd |-> cd, events |-> <<>>]

\* the confluence block from the MA state st of the symbol, the last closed 1m
\* bar and the closes of the 3m and 15m aggregates
Evaluate(c, ma, cd, sym, ts, st, last1m, close3m, close15) ==
  Decide(c, ma, cd, sym, ts, close15,
         computeFrame(st.m1, R(last1m.c), c.useEma, c.k1),
         computeFrame(st.m3, close3m, c.useEma, c.k3),
         computeFrame(st.m15, close15, c.useEma, c.k15),
         updateVolumeZ(st.vol, last1m.v))

\* the confluence block of the handler for one entry, run on the closed bars
\* bars1m: the maState and cdConfluence Maps after it and the alerts it posted
Confluence(c, ma, cd, bars1m, sym, ts) ==
  IF ~(c.on /\ Len(bars1m) >= MinBars)
    THEN [ma |-> ma, cd |-> cd, events |-> <<>>]
    ELSE Evaluate(c, ma, cd, sym, ts, getMA(ma, sym), bars1m[Len(bars1m)],
                  R(aggregateN(bars1m, 3).c), R(aggregateN(bars1m, 15).c))

-----------------------------------------------------------------------------
(* The ticker handler of runLoop: spike alert, trailing stop, candles, confluence *)

TrailPrices == {3, 4, 5, 6}

\* what the feed sends, as <<symbol, lastPrice, ms since the previous message>>:
\* the symbol in use at every price a minute later, the same symbol within the
\* minute, a symbol outside the universe, and an entry without a usable lastPrice
Feed ==
  (({"BTC_USDT"} \X TrailPrices) \X {60000})
    \cup ({<<"BTC_USDT", 5>>, <<"ETH_USDT", 4>>, <<"BTC_USDT", 0>>} \X {1000})

\* a detector that reports every move of at least the floor, with a 2 s cooldown
EagerSpikeConfig == [win |-> 1, minPct |-> <<3, 1000>>, z |-> R(1), cool |-> 2]

TrailConfigs ==
  { TrailDefaults,
    [enable |-> TRUE, startPct |-> <<1, 5>>, distPct |-> <<1, 5>>],
    [enable |-> FALSE, startPct |-> <<3, 1000>>, distPct |-> <<4, 1000>>] }

\* runLoop is connected and filters ticks with the Set `use`, which the build
\* took from the whitelist after the three sources returned nothing
Scanning(use) ==
  /\ uCfg = [variant |-> "merge", zeroFeeOnly |-> FALSE, fallbackToAll |-> FALSE,
             maxTakerFee |-> 0, whitelist |-> use, override |-> {}, force |-> "",
             minUniverse |-> 0]
  /\ upc = "connected"
  /\ u1 = <<>>
  /\ u2 = <<>>
  /\ u3 = <<>>
  /\ requested = {"detail", "ticker", "symbols"}
  /\ detailRows = <<>>
  /\ universe = use
  /\ useSet = use
  /\ nBuilds = 1
  /\ failedSrc = {}
  /\ buildThrew = FALSE

\* the writes of the handler for an accepted entry: hit is what spike.update
\* returned, alert whether the spike alert went out, tr what updateTrail did,
\* b the book after roll1m, cf what the confluence block did
Commit(sym, price, ts, hit, alert, tr, b, cf) ==
  /\ FeedSpike(sym, price, ts)
  /\ cdSpike' = IF alert THEN MapSet(cdSpike, sym, ts + spikeCfg.cool * 1000)
                         ELSE cdSpike
  /\ trails' = tr.trails
  /\ books' = MapSet(books, sym, b)
  /\ maState' = cf.ma
  /\ cdConfluence' = cf.cd
  /\ emitted' = (IF alert THEN << Alert("spike", sym, hit.dir, price) >> ELSE <<>>)
                  \o tr.events \o cf.events
  /\ tick' = [sym |-> sym, price |-> price, ts |-> ts, accepted |-> TRUE]

\* the handler from roll1m on
Candles(sym, price, ts, hit, alert, tr, b) ==
  Commit(sym, price, ts, hit, alert, tr, b,
         Confluence(confCfg, maState, cdConfluence, b.m1, sym, ts))

\* the handler from the spike alert on
Spiked(sym, price, ts, hit, alert) ==
  Candles(sym, price, ts, hit, alert,
          IF alert THEN updateTrail(trailCfg, trails, sym, hit.dir, price)
                   ELSE NoTrailChange(trails),
          roll1m(confCfg.history, getBook(books, sym), price, ts))

\* the handler after spike.update returned hit
Detected(sym, price, ts, hit) ==
  Spiked(sym, price, ts, hit,
         hit.is /\ ts >= (IF sym \in DOMAIN cdSpike THEN cdSpike[sym] ELSE 0))

\* one entry x of msg.data in ws.on('message'), the message stamped ts; the
\* entries of a message are handled one after the other in this way
HandleEntry(sym, price, ts) ==
  IF sym \notin useSet \/ ~(price > 0)
    THEN /\ tick' = [sym |-> sym, price |-> price, ts |-> ts, accepted |-> FALSE]
         /\ emitted' = <<>>
         /\ UNCHANGED <<spike, out, fired, maxAp>>
         /\ UNCHANGED <<cdSpike, trails, books, maState, cdConfluence>>
    ELSE Detected(sym, price, ts, SpikeUpdate(spikeCfg, spike, sym, price, ts).res)

\* one push.tickers message with one entry of the feed, while fewer than max
\* were handled
TickerOn(feed, max) ==
  /\ trailImpl = "updateTrail"
  /\ nMsgs < max
  /\ \E f \in feed :
       /\ clock' = clock + f[2]
       /\ HandleEntry(f[1][1], f[1][2], clock + f[2])
  /\ nMsgs' = nMsgs + 1
  /\ UNCHANGED <<spikeCfg, nTicks, scriptPos, trailImpl, trailCfg, confCfg>>
  /\ UNCHANGED <<uniVars, tmVars, maVars, restVars>>

Ticker(max) == TickerOn(Feed, max)

OnTicker == Ticker(MaxMsgs)

\* the handler with TRAIL_START_AFTER_PCT at a third, to five decimals, or at a
\* fifth, on prices a third and more apart, a minute apart
ExitConfigs ==
  { [enable |-> TRUE, startPct |-> <<33333, 100000>>, distPct |-> <<1, 5>>],
    [enable |-> TRUE, startPct |-> <<1, 5>>, distPct |-> <<1, 5>>] }

ExitFeed == ({"BTC_USDT"} \X {4, 6, 7, 8}) \X {60000}

OnExitTicker == TickerOn(ExitFeed, MaxMsgs)

ExitInit ==
  /\ trailImpl = "updateTrail"
  /\ trailCfg \in ExitConfigs
  /\ tmCfg = TMDefaults
  /\ confCfg = ConfDefaults
  /\ ScanStart
  /\ TMStart
  /\ spikeCfg = EagerSpikeConfig
  /\ SpikeStart
  /\ Scanning({"BTC_USDT"})
  /\ MAIdle
  /\ RestIdle

ExitNext == OnExitTicker

SpecExit == ExitInit /\ [][ExitNext]_vars

-----------------------------------------------------------------------------
(* class TrailingManager *)

TMSymbols == {"BTC_USDT", "ETH_USDT"}

\* the defaults scaled by 200: the same ratio of start : distance : step, at the
\* size of the price steps fed here
TMScaled == [startPct |-> <<3, 5>>, distancePct |-> <<4, 5>>, stepPct |-> <<1, 5>>]

TMConfigs ==
  { TMDefaults,
    [startPct |-> <<1, 5>>, distancePct |-> <<1, 5>>, stepPct |-> <<1, 10>>],
    [startPct |-> R(0), distancePct |-> <<1, 5>>, stepPct |-> R(0)],
    TMScaled }

\* !p.stop
NoStop(stop) == stop = Null \/ stop[1] = 0

TMonEntry(pos, symbol, side, entry) ==
  MapSet(pos, symbol, [side |-> side, entry |-> entry, high |-> entry, low |-> entry,
                       stop |-> Null])

TMQuiet(pos) == [positions |-> pos, notified |-> FALSE, side |-> "-", stop |-> Null]

\* onPrice(symbol, price): positions after the call and the notification returned
TMonPrice(c, pos, symbol, price) ==
  IF symbol \notin DOMAIN pos THEN TMQuiet(pos)
  ELSE
    LET p == pos[symbol]
    IN IF p.side = "long"
         THEN LET high == IF price > p.high THEN price ELSE p.high
                  p1 == [p EXCEPT !.high = high]
                  gain == RDiv(R(high - p.entry), R(p.entry))
                  newStop == RMul(R(high), RSub(R(1), c.distancePct))
              IN IF RLe(c.startPct, gain) /\
                    (NoStop(p.stop) \/
                       RLe(RMul(R(high), c.stepPct), RSub(newStop, p.stop)))
                   THEN [positions |-> MapSet(pos, symbol, [p1 EXCEPT !.stop = newStop]),
                         notified |-> TRUE, side |-> "long", stop |-> newStop]
                   ELSE TMQuiet(MapSet(pos, symbol, p1))
         ELSE IF p.side = "short"
           THEN LET low == IF price < p.low THEN price ELSE p.low
                    p1 == [p EXCEPT !.low = low]
                    gain == RDiv(R(p.entry - low), R(p.entry))
                    newStop == RMul(R(low), RAdd(R(1), c.distancePct))
                IN IF RLe(c.startPct, gain) /\
                      (NoStop(p.stop) \/
                         RLe(RMul(R(low), c.stepPct), RSub(p.stop, newStop)))
                     THEN [positions |-> MapSet(pos, symbol, [p1 EXCEPT !.stop = newStop]),
                           notified |-> TRUE, side |-> "short", stop |-> newStop]
                     ELSE TMQuiet(MapSet(pos, symbol, p1))
           ELSE TMQuiet(pos)

TMclose(pos, symbol) == MapDel(pos, symbol)

ManagerEntry ==
  /\ trailImpl = "TrailingManager"
  /\ nCalls < MaxCalls
  /\ \E symbol \in TMSymbols, side \in {"long", "short"}, entry \in TrailPrices :
       /\ positions' = TMonEntry(positions, symbol, side, entry)
       /\ tmRet' = [op |-> "onEntry", symbol |-> symbol, price |-> entry,
                    notified |-> FALSE, side |-> "-", stop |-> Null]
  /\ nCalls' = nCalls + 1
  /\ UNCHANGED tmCfg
  /\ UNCHANGED <<spikeVars, uniVars, scanVars, maVars, restVars>>

ManagerPrice ==
  /\ trailImpl = "TrailingManager"
  /\ nCalls < MaxCalls
  /\ \E symbol \in TMSymbols, price \in TrailPrices :
       LET r == TMonPrice(tmCfg, positions, symbol, price)
       IN /\ positions' = r.positions
          /\ tmRet' = [op |-> "onPrice", symbol |-> symbol, price |-> price,
                       notified |-> r.notified, side |-> r.side, stop |-> r.stop]
  /\ nCalls' = nCalls + 1
  /\ UNCHANGED tmCfg
  /\ UNCHANGED <<spikeVars, uniVars, scanVars, maVars, restVars>>

ManagerClose ==
  /\ trailImpl = "TrailingManager"
  /\ nCalls < MaxCalls
  /\ \E symbol \in TMSymbols :
       /\ positions' = TMclose(positions, symbol)
       /\ tmRet' = [op |-> "close", symbol |-> symbol, price |-> 0,
                    notified |-> FALSE, side |-> "-", stop |-> Null]
  /\ nCalls' = nCalls + 1
  /\ UNCHANGED tmCfg
  /\ UNCHANGED <<spikeVars, uniVars, scanVars, maVars, restVars>>

TrailInit ==
  /\ trailImpl \in {"updateTrail", "TrailingManager"}
  /\ trailCfg \in TrailConfigs
  /\ tmCfg \in TMConfigs
  /\ (trailImpl = "updateTrail" => tmCfg \in {TMDefaults, TMScaled})
  /\ (trailImpl = "TrailingManager" => trailCfg = TrailDefaults)
  /\ confCfg = ConfDefaults
  /\ ScanStart
  /\ TMStart
  /\ spikeCfg = EagerSpikeConfig
  /\ SpikeStart
  /\ Scanning({"BTC_USDT"})
  /\ MAIdle
  /\ RestIdle

TrailNext == OnTicker \/ ManagerEntry \/ ManagerPrice \/ ManagerClose

SpecTrail == TrailInit /\ [][TrailNext]_vars

-----------------------------------------------------------------------------
(* The ticker handler once the 1m history is long enough for the confluence *)

\* the feed before the first state: one BTC_USDT tick per minute at one price, as
\* many ticks as the confluence block needs closed bars, so that the last of
\* them is still the open bar and the next minute's tick closes bar no. MinBars
WarmFeed == [i \in 1 .. MinBars |-> [price |-> 5, ts |-> (i - 1) * 60000]]

\* the bar roll1m makes of a minute with the single tick x
OneTickBar(x) ==
  [t |-> x.ts, o |-> x.price, h |-> x.price, l |-> x.price, c |-> x.price, v |-> 1]

\* the book of BTC_USDT after that feed
WarmBook ==
  [m1 |-> [i \in 1 .. MinBars - 1 |-> OneTickBar(WarmFeed[i])],
   cur |-> << OneTickBar(WarmFeed[MinBars]) >>]

\* the detector after that feed: the price never moved, so every absPct was 0
WarmEngine ==
  [last |-> MapSet(<<>>, "BTC_USDT", [p |-> WarmFeed[MinBars].price,
                                      t |-> WarmFeed[MinBars].ts]),
   ewma |-> MapSet(<<>>, "BTC_USDT", R(0)),
   block |-> <<>>]

\* the handler's state after that feed: no spike was returned, no trail opened,
\* and the confluence block has not run yet
\* the confluence with every gate open as far as it goes: dead zones of 0, one
\* bar of lookback, no ordering test, any volume, any distance
ConfLenient ==
  [ConfDefaults EXCEPT !.useEma = FALSE, !.ordering = FALSE,
                       !.k1 = 1, !.k3 = 1, !.k15 = 1,
                       !.dz1 = R(0), !.dz3 = R(0), !.dz15 = R(0),
                       !.zmin = R(-1), !.distMax = R(1)]

WarmInit ==
  /\ trailImpl = "updateTrail"
  /\ trailCfg = TrailDefaults
  /\ tmCfg = TMDefaults
  /\ confCfg \in {ConfDefaults, [ConfDefaults EXCEPT !.useEma = FALSE], ConfLenient}
  /\ cdSpike = <<>>
  /\ trails = <<>>
  /\ books = MapSet(<<>>, "BTC_USDT", WarmBook)
  /\ maState = <<>>
  /\ cdConfluence = <<>>
  /\ emitted = <<>>
  /\ tick = [sym |-> "BTC_USDT", price |-> WarmFeed[MinBars].price,
             ts |-> WarmFeed[MinBars].ts, accepted |-> TRUE]
  /\ clock = WarmFeed[MinBars].ts
  /\ nMsgs = 0
  /\ TMStart
  /\ spikeCfg = EagerSpikeConfig
  /\ spike = WarmEngine
  /\ out = [sym |-> "BTC_USDT", price |-> WarmFeed[MinBars].price,
            ts |-> WarmFeed[MinBars].ts, prevp |-> WarmFeed[MinBars - 1].price,
            res |-> NoSpikeRet]
  /\ fired = <<>>
  /\ maxAp = MapSet(<<>>, "BTC_USDT", R(0))
  /\ nTicks = 0
  /\ scriptPos = 0
  /\ Scanning({"BTC_USDT"})
  /\ MAIdle
  /\ RestIdle

OnWarmTicker == Ticker(MaxWarmMsgs)

WarmNext == OnWarmTicker

SpecWarm == WarmInit /\ [][WarmNext]_vars

-----------------------------------------------------------------------------
(* Claims about the trailing stop *)

\* an alert of the given type for (sym, side) is among the alerts `ev`
Posted(ev, type, sym, side) ==
  \E i \in DOMAIN ev : ev[i].type = type /\ ev[i].symbol = sym /\ ev[i].side = side

\* C5: whenever an accepted tick's price is at or beyond the stop of an in_trail
\* state of its symbol (long: price <= stop, short: price >= stop), processing
\* that tick posts the EXIT of that (symbol, side) and deletes the state.
C5_StopCrossedExits ==
  [][ \A k \in DOMAIN trails :
        ( /\ nMsgs' = nMsgs + 1
          /\ tick'.accepted
          /\ tick'.sym = k[1]
          /\ trails[k].state = "in_trail"
          /\ Hit(k[2], tick'.price, trails[k].trail) )
        => ( /\ k \notin DOMAIN trails'
             /\ Posted(emitted', "trail_exit", k[1], SideName(k[2])) ) ]_vars

\* C6: while a trail state stays open its peak and its stop never get worse: for
\* a long neither decreases, for a short neither increases.  For updateTrail the
\* state is trails[k]; for TrailingManager it is positions[s] across onPrice
\* calls, with high (long) or low (short) as the peak.
C6_TrailMonotone ==
  [][ /\ \A k \in (DOMAIN trails) \cap (DOMAIN trails') :
           LET a == trails[k]
               b == trails'[k]
           IN /\ IF k[2] THEN a.peak <= b.peak ELSE b.peak <= a.peak
              /\ a.trail # Null =>
                   /\ b.trail # Null
                   /\ IF k[2] THEN RLe(a.trail, b.trail) ELSE RLe(b.trail, a.trail)
      /\ tmRet'.op = "onPrice" =>
           \A s \in (DOMAIN positions) \cap (DOMAIN positions') :
             LET a == positions[s]
                 b == positions'[s]
             IN /\ IF a.side = "long" THEN a.high <= b.high ELSE b.low <= a.low
                /\ a.stop # Null =>
                     /\ b.stop # Null
                     /\ IF a.side = "long" THEN RLe(a.stop, b.stop)
                                           ELSE RLe(b.stop, a.stop) ]_vars

\* an in_trail state whose peak and stop have just been moved by a tick
C6_TrailMoved ==
  \E k \in DOMAIN trails :
    /\ trails[k].state = "in_trail"
    /\ Posted(emitted, "trail_move", k[1], SideName(k[2]))
    /\ trails[k].peak # trails[k].entry

\* the tick of this step passed the filters and its spike alert went out for
\* the side of key k, with the trailing stop enabled: updateTrail ran on k
Applied(k) ==
  /\ trailCfg.enable
  /\ tick'.accepted
  /\ tick'.sym = k[1]
  /\ \E i \in DOMAIN emitted' :
        /\ emitted'[i].type = "spike"
        /\ emitted'[i].side = (IF k[2] THEN "UP" ELSE "DOWN")

\* the favourable move of price p from entry e is at least the fraction q
FavAtLeast(isLong, p, e, q) ==
  IF isLong THEN q[1] * e <= (p - e) * q[2] ELSE q[1] * e <= (e - p) * q[2]

\* C22: per (symbol, side) the state of updateTrail moves only from no state to
\* armed (entry = peak = price, no stop), from armed to in_trail on the first
\* update whose favourable move from the entry reaches startAfterPct (armed is
\* kept unchanged otherwise), from in_trail to in_trail, and from in_trail to
\* no state with an EXIT.
C22_TrailTransitions ==
  [][ \A k \in (DOMAIN trails) \cup (DOMAIN trails') :
        IF k \notin DOMAIN trails
          THEN /\ Applied(k)
               /\ trails'[k] = [state |-> "armed", entry |-> tick'.price,
                                peak |-> tick'.price, trail |-> Null]
        ELSE IF trails[k].state = "armed"
          THEN /\ k \in DOMAIN trails'
               /\ trails'[k].entry = trails[k].entry
               /\ IF Applied(k) /\ FavAtLeast(k[2], tick'.price, trails[k].entry,
                                              trailCfg.startPct)
                    THEN trails'[k].state = "in_trail"
                    ELSE trails'[k] = trails[k]
        ELSE /\ trails[k].state = "in_trail"
             /\ IF k \in DOMAIN trails'
                  THEN trails'[k].state = "in_trail"
                  ELSE Applied(k) /\ Posted(emitted', "trail_exit", k[1], SideName(k[2]))
    ]_vars

\* a state that went through armed and in_trail has just been exited
C22_Exited ==
  /\ trailImpl = "updateTrail"
  /\ \E i \in DOMAIN emitted :
        /\ emitted[i].type = "trail_exit"
        /\ emitted[i].peak # emitted[i].entry
        /\ <<emitted[i].symbol, emitted[i].side = "long">> \notin DOMAIN trails

\* C24: a "moved" notification goes out only when the stop differs from the
\* stop of the last notification of that state (armed or moved) by at least
\* stepPct * peak.  updateTrail notifies every change of the stop, so the last
\* notified stop is the stored one; TrailingManager stores the stop it returns.
C24_MovedOnlyByStep ==
  [][ /\ \A i \in DOMAIN emitted' :
           emitted'[i].type = "trail_move" =>
             RLe(RMul(tmCfg.stepPct, R(emitted'[i].peak)),
                 RAbs(RSub(emitted'[i].trail,
                           trails[<<emitted'[i].symbol, emitted'[i].side = "long">>].trail)))
      /\ \A s \in DOMAIN positions :
           ( /\ tmRet'.op = "onPrice"
             /\ tmRet'.symbol = s
             /\ tmRet'.notified
             /\ positions[s].stop # Null )
           => RLe(RMul(tmCfg.stepPct,
                       R(IF positions[s].side = "long" THEN positions'[s].high
                                                       ELSE positions'[s].low)),
                  RAbs(RSub(tmRet'.stop, positions[s].stop))) ]_vars

\* the state TrailingManager holds for one side of a symbol, if any
SideState(pos, s, side) ==
  IF s \in DOMAIN pos /\ pos[s].side = side THEN <<pos[s]>> ELSE <<>>

\* C25: the long and the short state of a symbol are independent: a step that
\* creates, updates or exits the state of one (symbol, side) leaves every other
\* state as it was.  For updateTrail the states are the entries of trails; for
\* TrailingManager an onEntry for one side must leave the other side's state.
C25_SidesIndependent ==
  [][ /\ \A k \in (DOMAIN trails) \cup (DOMAIN trails') :
           Applied(k) \/ (k \in DOMAIN trails /\ k \in DOMAIN trails'
                            /\ trails'[k] = trails[k])
      /\ \A k1, k2 \in (DOMAIN trails) \cup (DOMAIN trails') :
           (Applied(k1) /\ Applied(k2)) => k1 = k2
      /\ \A s \in DOMAIN positions :
           ( /\ tmRet'.op = "onEntry"
             /\ s \in DOMAIN positions'
             /\ positions'[s].side # positions[s].side )
           => SideState(positions', s, positions[s].side)
                = SideState(positions, s, positions[s].side) ]_vars

\* the TrailState of key k is what it was, or still absent
SameTrail(k) ==
  /\ k \in DOMAIN trails <=> k \in DOMAIN trails'
  /\ k \in DOMAIN trails => trails'[k] = trails[k]

\* the entry of this step raised a spike alert for symbol s in direction d
SpikeRaised(s, d) ==
  /\ tick'.accepted
  /\ tick'.sym = s
  /\ \E i \in DOMAIN emitted' : emitted'[i].type = "spike" /\ emitted'[i].side = d

TrailKeys == {"BTC_USDT", "ETH_USDT"} \X BOOLEAN

\* C38: an entry that raises no spike alert leaves every TrailState as it was,
\* and an entry that raises one leaves every TrailState but that of its symbol
\* and of the side matching its direction (UP: long, DOWN: short) as it was.
C38_TrailOnlyOnSpike ==
  [][ /\ (~\E s \in {"BTC_USDT", "ETH_USDT"}, d \in {"UP", "DOWN"} : SpikeRaised(s, d))
           => trails' = trails
      /\ \A s \in {"BTC_USDT", "ETH_USDT"}, d \in {"UP", "DOWN"} :
           SpikeRaised(s, d)
             => \A k \in TrailKeys : k # <<s, d = "UP">> => SameTrail(k) ]_vars

\* a DOWN spike has just worked on the short state while the long one is open
C38_SpikeBesideOpenSide ==
  /\ tick.accepted
  /\ \E i \in DOMAIN emitted : emitted[i].type = "spike" /\ emitted[i].side = "DOWN"
  /\ <<tick.sym, TRUE>> \in DOMAIN trails
  /\ trails[<<tick.sym, TRUE>>].state = "in_trail"
  /\ <<tick.sym, FALSE>> \in DOMAIN trails

\* TRAIL_START_AFTER_PCT as a percentage
StartPercent == RMul(trailCfg.startPct, R(100))

\* the exits among the alerts of the last message
Exits == {i \in DOMAIN emitted : emitted[i].type = "trail_exit"}

\* C39, as stated: the P&L an EXIT reports is at least startAfterPct * 100.
C39_ExitPnlAtLeastStart ==
  \A i \in Exits : RLe(StartPercent, emitted[i].pnl)

\* C39, amended: the P&L of an EXIT is computed from the peak and the entry it
\* reports, whatever the exit price, and is at least startAfterPct * 100 before
\* it is rounded to two decimals; the reported, rounded value is at least
\* startAfterPct * 100 rounded to two decimals.
C39_ExitPnlFromPeak ==
  \A i \in Exits :
    LET a == emitted[i]
    IN  /\ a.pnl = ToFixed2(PnlPct(a.side = "long", a))
        /\ RLe(StartPercent, PnlPct(a.side = "long", a))
        /\ RLe(ToFixed2(StartPercent), a.pnl)

\* an exit at a price worse than the entry, with a positive P&L
C39_ExitBeyondEntry ==
  \E i \in Exits :
    /\ IF emitted[i].side = "long" THEN emitted[i].price < emitted[i].entry
                                   ELSE emitted[i].price > emitted[i].entry
    /\ RLt(R(0), emitted[i].pnl)

\* C23: an in_trail state's stop is peak * (1 - distancePct) for a long and
\* peak * (1 + distancePct) for a short, the peak being the most favourable
\* price given so far; for TrailingManager the state is in trail once it has a
\* stop, and its peak is high (long) or low (short).
C23_StopFollowsPeak ==
  /\ \A k \in DOMAIN trails :
        trails[k].state = "in_trail" =>
          trails[k].trail =
            RMul(R(trails[k].peak),
                 IF k[2] THEN RSub(R(1), trailCfg.distPct)
                         ELSE RAdd(R(1), trailCfg.distPct))
  /\ \A s \in DOMAIN positions :
        positions[s].stop # Null =>
          positions[s].stop =
            IF positions[s].side = "long"
              THEN RMul(R(positions[s].high), RSub(R(1), tmCfg.distancePct))
              ELSE RMul(R(positions[s].low), RAdd(R(1), tmCfg.distancePct))

-----------------------------------------------------------------------------
(* MA alignment across 1m, 3m and 15m: BarAgg and MAAllFrames *)

Frames == << [name |-> "1m", sec |-> 60], [name |-> "3m", sec |-> 180],
             [name |-> "15m", sec |-> 900] >>

Periods == <<5, 10, 30>>

emaNext(prev, value, period) ==
  IF prev = Null THEN value
  ELSE RAdd(RMul(RSub(value, prev), RDiv(R(2), R(period + 1))), prev)

\* BarAgg.onTick(sym, price, ts): the map after the call and the bar it closed
\* (a sequence holding that bar, empty when it returned null)
BarAggOnTick(frame, map, sym, price, ts) ==
  LET start == (ts \div (1000 * frame)) * frame * 1000
  IN IF sym \notin DOMAIN map
       THEN [map |-> MapSet(map, sym, [start |-> start, close |-> price]),
             closed |-> <<>>]
       ELSE IF map[sym].start # start
         THEN [map |-> MapSet(map, sym, [start |-> start, close |-> price]),
               closed |-> << [close |-> map[sym].close,
                              ts |-> map[sym].start + frame * 1000] >>]
         ELSE [map |-> MapSet(map, sym, [map[sym] EXCEPT !.close = price]),
               closed |-> <<>>]

\* slopeUp / slopeDown of a snapshot: "true", "false", or "null" before a second value
Tri(known, b) == IF ~known THEN "null" ELSE IF b THEN "true" ELSE "false"

\* one pass of the loop over this.periods in _updateEMAs: rec is the stored
\* record of period p and next its new value
PeriodStep(acc, p, rec, next) ==
  [tfMap |-> MapSet(acc.tfMap, p, [val |-> next, prev |-> rec.val]),
   snaps |-> Append(acc.snaps,
                    [p |-> p, val |-> next,
                     slopeUp |-> Tri(rec.val # Null, RLt(rec.val, next)),
                     slopeDown |-> Tri(rec.val # Null, RLt(next, rec.val))]),
   prevVal |-> next,
   orderedUp |-> acc.orderedUp /\ (acc.prevVal = Null \/ RLt(acc.prevVal, next)),
   orderedDown |-> acc.orderedDown /\ (acc.prevVal = Null \/ RLt(next, acc.prevVal))]

\* tfMap.get(p) || { val:null, prev:null }
RecOf(tfMap, p) == IF p \in DOMAIN tfMap THEN tfMap[p] ELSE [val |-> Null, prev |-> Null]

NextOf(acc, p, rec, close) == PeriodStep(acc, p, rec, emaNext(rec.val, close, p))

\* the loop over this.periods in _updateEMAs, from the i-th period on
RECURSIVE UpdateLoop(_, _, _)
UpdateLoop(close, i, acc) ==
  IF i > Len(Periods) THEN acc
  ELSE UpdateLoop(close, i + 1, NextOf(acc, Periods[i], RecOf(acc.tfMap, Periods[i]), close))

DirUpAlways(allUp, allDown) == "UP"

DirOf(allUp, allDown) == IF allUp THEN "UP" ELSE IF allDown THEN "DOWN" ELSE "-"

\* the end of _updateEMAs: r is the outcome of the loop over the periods
SlopeOf(r) ==
  LET haveSlopes == \A i \in DOMAIN r.snaps : r.snaps[i].slopeUp # "null"
      allUp == (\A i \in DOMAIN r.snaps : r.snaps[i].slopeUp = "true") /\ r.orderedUp
      allDown == (\A i \in DOMAIN r.snaps : r.snaps[i].slopeDown = "true") /\ r.orderedDown
      dir == IF haveSlopes THEN DirOf(allUp, allDown) ELSE "-"
  IN [tfMap |-> r.tfMap,
      slope |-> [ready |-> haveSlopes, dir |-> dir, ordered |-> dir # "-"]]

\* _updateEMAs(sym, tf, close) on the period map of (sym, tf): the map after the
\* call and the record it stores in slopeStore; dir "-" stands for null
updateEMAs(tfMap, close) ==
  SlopeOf(UpdateLoop(close, 1, [tfMap |-> tfMap, snaps |-> <<>>, prevVal |-> Null,
                                orderedUp |-> TRUE, orderedDown |-> TRUE]))

FrameOKAnyDir(rec) == rec.ready

\* a frame's record passes the test of _allFramesAgree
FrameOK(rec) == rec.ready /\ rec.ordered /\ rec.dir # "-"

allFramesAgree(slopes, sym) ==
  IF \E n \in FrameNames : <<sym, n>> \notin DOMAIN slopes \/ ~FrameOK(slopes[<<sym, n>>])
    THEN [ok |-> FALSE, dir |-> "-"]
    ELSE LET d1 == slopes[<<sym, "1m">>].dir
             d3 == slopes[<<sym, "3m">>].dir
             d15 == slopes[<<sym, "15m">>].dir
             same == (d1 = d3) /\ (d3 = d15)
         IN [ok |-> same, dir |-> IF same THEN d1 ELSE "-"]

\* a frame closed a bar: u is what _updateEMAs did with its close
Closed(st, key, agg1, close, u) ==
  [agg |-> agg1,
   emaStore |-> MapSet(st.emaStore, key, u.tfMap),
   slopeStore |-> MapSet(st.slopeStore, key, u.slope),
   closes |-> MapSet(st.closes, key,
                     Append(IF key \in DOMAIN st.closes THEN st.closes[key] ELSE <<>>,
                            close)),
   changed |-> TRUE]

\* one pass of the loop over this.frames in onTick: r is what the frame's
\* BarAgg.onTick returned
FrameStep(st, f, sym, r) ==
  IF r.closed = <<>>
    THEN [st EXCEPT !.agg[f.name] = r.map]
    ELSE Closed(st, <<sym, f.name>>, [st.agg EXCEPT ![f.name] = r.map],
                R(r.closed[1].close),
                updateEMAs(IF <<sym, f.name>> \in DOMAIN st.emaStore
                             THEN st.emaStore[<<sym, f.name>>] ELSE <<>>,
                           R(r.closed[1].close)))

\* the loop over this.frames in onTick, from the i-th frame on
RECURSIVE FrameLoop(_, _, _, _, _)
FrameLoop(sym, price, ts, i, st) ==
  IF i > Len(Frames) THEN st
  ELSE FrameLoop(sym, price, ts, i + 1,
                 FrameStep(st, Frames[i], sym,
                           BarAggOnTick(Frames[i].sec, st.agg[Frames[i].name],
                                        sym, price, ts)))

\* onTick after the loop over the frames left the stores st1
AgreementNoCooldown(c, last, sym, price, ts, st1, agree) ==
  IF ~st1.changed \/ ~agree.ok
    THEN [st |-> st1, lastAlert |-> last, calls |-> <<>>]
    ELSE [st |-> st1, lastAlert |-> MapSet(last, sym, ts),
          calls |-> << Alert("ma_align_all", sym, agree.dir, price) >>]

Agreement(c, last, sym, price, ts, st1, agree) ==
  IF ~st1.changed \/ ~agree.ok \/
     ts < (IF sym \in DOMAIN last THEN last[sym] ELSE 0) + c.cool * 1000
    THEN [st |-> st1, lastAlert |-> last, calls |-> <<>>]
    ELSE [st |-> st1, lastAlert |-> MapSet(last, sym, ts),
          calls |-> << Alert("ma_align_all", sym, agree.dir, price) >>]

AfterFrames(c, last, sym, price, ts, st1) ==
  Agreement(c, last, sym, price, ts, st1, allFramesAgree(st1.slopeStore, sym))

\* MAAllFrames.onTick(sym, price, ts, onAgree): the stores after the call and the
\* onAgree calls it made
onTick(c, trk, st, last, sym, price, ts) ==
  IF trk # {} /\ sym \notin trk
    THEN [st |-> st, lastAlert |-> last, calls |-> <<>>]
    ELSE AfterFrames(c, last, sym, price, ts,
                     FrameLoop(sym, price, ts, 1, [st EXCEPT !.changed = FALSE]))

\* setUniverse(universe): the first `limit` symbols in sorted order; the universes
\* of this model are smaller than the least limit (20), so all of them are kept
setUniverse(u, limit) == IF Cardinality(u) <= limit THEN u ELSE {}

BarPrices == {1, 6}

\* what the feed sends to the alignment worker, as <<symbol, lastPrice, ms since
\* the previous message>>; a message whose ts is a minute before that of the
\* previous one is among them
BarFeed ==
  ({"BTC_USDT"} \X BarPrices \X {1000, 60000, 180000, 900000})
    \cup {<<"ETH_USDT", 1, 1000>>, <<"BTC_USDT", 0, 1000>>, <<"BTC_USDT", 6, -60000>>}

MAConfigs == { MADefaults, [enable |-> TRUE, limit |-> 150, cool |-> 120] }

\* the stores of maAll, as one record
Stores ==
  [agg |-> agg, emaStore |-> emaStore, slopeStore |-> slopeStore, closes |-> closes,
   changed |-> FALSE]

\* the writes of the handler for an accepted entry: hit is what spike.update
\* returned and r what maAll.onTick did
CommitAlign(sym, price, ts, hit, r) ==
  /\ FeedSpike(sym, price, ts)
  /\ agg' = r.st.agg
  /\ emaStore' = r.st.emaStore
  /\ slopeStore' = r.st.slopeStore
  /\ closes' = r.st.closes
  /\ lastAlert' = r.lastAlert
  /\ emitted' = (IF hit.is THEN << Alert("spike", sym, hit.dir, price) >> ELSE <<>>)
                  \o r.calls
  /\ tick' = [sym |-> sym, price |-> price, ts |-> ts, accepted |-> TRUE]

\* one entry x of msg.data in the handler of the alignment worker
AlignEntry(sym, price, ts) ==
  IF (useSet # {} /\ sym \notin useSet) \/ price <= 0
    THEN /\ tick' = [sym |-> sym, price |-> price, ts |-> ts, accepted |-> FALSE]
         /\ emitted' = <<>>
         /\ UNCHANGED <<spike, out, fired, maxAp>>
         /\ UNCHANGED <<agg, emaStore, slopeStore, lastAlert, closes>>
    ELSE CommitAlign(sym, price, ts, SpikeUpdate(spikeCfg, spike, sym, price, ts).res,
                     IF maCfg.enable
                       THEN onTick(maCfg, tracked, Stores, lastAlert, sym, price, ts)
                       ELSE [st |-> Stores, lastAlert |-> lastAlert, calls |-> <<>>])

\* one message of the feed, while fewer than max of them were handled
AlignTicker(max) ==
  /\ nBarTicks < max
  /\ \E f \in BarFeed :
       /\ clock + f[3] >= 0
       /\ clock' = clock + f[3]
       /\ AlignEntry(f[1], f[2], clock + f[3])
  /\ nBarTicks' = nBarTicks + 1
  /\ UNCHANGED <<spikeCfg, nTicks, scriptPos, maCfg, tracked>>
  /\ UNCHANGED <<trailImpl, trailCfg, confCfg, cdSpike, trails, books, maState,
                 cdConfluence, nMsgs>>
  /\ UNCHANGED <<uniVars, tmVars, restVars>>

AlignInit ==
  /\ maCfg \in MAConfigs
  /\ Scanning({"BTC_USDT"})
  /\ tracked = IF maCfg.enable THEN setUniverse(useSet, maCfg.limit) ELSE {}
  /\ agg = [n \in FrameNames |-> <<>>]
  /\ emaStore = <<>>
  /\ slopeStore = <<>>
  /\ lastAlert = <<>>
  /\ closes = <<>>
  /\ nBarTicks = 0
  /\ spikeCfg = EagerSpikeConfig
  /\ SpikeStart
  /\ ScanIdle
  /\ TMIdle
  /\ RestIdle

OnAlignTicker == AlignTicker(MaxBarTicks)

AlignNext == OnAlignTicker

SpecAlign == AlignInit /\ [][AlignNext]_vars

\* the same worker over a feed one message longer, long enough for a bar to close
\* after the three timeframes have aligned
OnAlignTickerRun == AlignTicker(MaxAlignRun)

AlignRunNext == OnAlignTickerRun

SpecAlignRun == AlignInit /\ [][AlignRunNext]_vars

-----------------------------------------------------------------------------
(* The two ways of making 3m and 15m bars, fed the same ticks *)

\* the ticks that follow the feed of the long history, as <<lastPrice, ms since
\* the previous tick>>: within the minute, a minute later, and after a minute
\* without a tick
BarTicks == {3, 5} \X {1000, 60000, 120000}

\* the BarAgg maps after that feed: each holds the bucket of the last tick, open
WarmAgg ==
  [n \in FrameNames |->
     BarAggOnTick(Frames[CHOOSE i \in DOMAIN Frames : Frames[i].name = n].sec, <<>>,
                  "BTC_USDT", WarmFeed[MinBars].price, WarmFeed[MinBars].ts).map]

BarsInit ==
  /\ trailImpl = "updateTrail"
  /\ trailCfg = TrailDefaults
  /\ confCfg = ConfDefaults
  /\ cdSpike = <<>>
  /\ trails = <<>>
  /\ books = MapSet(<<>>, "BTC_USDT", WarmBook)
  /\ maState = <<>>
  /\ cdConfluence = <<>>
  /\ emitted = <<>>
  /\ tick = NoTick
  /\ clock = WarmFeed[MinBars].ts
  /\ nMsgs = 0
  /\ maCfg = MADefaults
  /\ tracked = {}
  /\ agg = WarmAgg
  /\ emaStore = <<>>
  /\ slopeStore = <<>>
  /\ lastAlert = <<>>
  /\ closes = <<>>
  /\ nBarTicks = 0
  /\ spikeCfg = ExampleConfig
  /\ SpikeStart
  /\ UniIdle
  /\ TMIdle
  /\ RestIdle

\* one tick of BTC_USDT, given to roll1m and to the BarAgg of every frame
SameTick ==
  /\ nMsgs < MaxBarMsgs
  /\ \E x \in BarTicks :
       /\ clock' = clock + x[2]
       /\ tick' = [sym |-> "BTC_USDT", price |-> x[1], ts |-> clock + x[2],
                   accepted |-> TRUE]
       /\ books' = MapSet(books, "BTC_USDT",
                          roll1m(confCfg.history, getBook(books, "BTC_USDT"), x[1],
                                 clock + x[2]))
       /\ agg' = [n \in FrameNames |->
                   BarAggOnTick(Frames[CHOOSE i \in DOMAIN Frames : Frames[i].name = n].sec,
                                agg[n], "BTC_USDT", x[1], clock + x[2]).map]
  /\ nMsgs' = nMsgs + 1
  /\ UNCHANGED <<trailImpl, trailCfg, confCfg, cdSpike, trails, maState, cdConfluence,
                 emitted>>
  /\ UNCHANGED <<maCfg, tracked, emaStore, slopeStore, lastAlert, closes, nBarTicks>>
  /\ UNCHANGED <<spikeVars, uniVars, tmVars, restVars>>

BarsNext == SameTick

SpecBars == BarsInit /\ [][BarsNext]_vars

-----------------------------------------------------------------------------
(* Claims about the confluence *)

Front(q) == SubSeq(q, 1, Len(q) - 1)

\* the EMA of the given period over the closes q, computed from the first close on
RECURSIVE EmaOver(_, _)
EmaOver(q, period) ==
  IF q = <<>> THEN Null ELSE emaNext(EmaOver(Front(q), period), q[Len(q)], period)

\* the direction in which a timeframe is aligned after the closes q: on the last
\* close all three averages moved that way and they are strictly ordered by length
AlignedDir(q) ==
  IF Len(q) < 2 THEN "-"
  ELSE LET now == [i \in 1..3 |-> EmaOver(q, Periods[i])]
           was == [i \in 1..3 |-> EmaOver(Front(q), Periods[i])]
           ordered == \/ RLt(now[1], now[2]) /\ RLt(now[2], now[3])
                      \/ RLt(now[3], now[2]) /\ RLt(now[2], now[1])
       IN IF ordered /\ \A i \in 1..3 : RLt(was[i], now[i]) THEN "UP"
          ELSE IF ordered /\ \A i \in 1..3 : RLt(now[i], was[i]) THEN "DOWN"
          ELSE "-"

UnitValue(c, u) ==
  IF c.useEma THEN u.ema
  ELSE IF u.smaWin = <<>> THEN Null ELSE RDiv(RSum(u.smaWin), R(Len(u.smaWin)))

\* the moving averages of one timeframe
FrameValues(c, fr) ==
  << UnitValue(c, fr.len5), UnitValue(c, fr.len10), UnitValue(c, fr.len30) >>

\* C28: moving averages move only when a bar closes: a ticker entry that closes
\* no 1m bar of a symbol (and so no bar of any timeframe built from them) leaves
\* the moving averages of its three timeframes as they were.
C28_MaOncePerClosedBar ==
  [][ \A s \in DOMAIN maState :
        (s \in DOMAIN books /\ books'[s].m1 = books[s].m1)
          => /\ FrameValues(confCfg, maState'[s].m1) = FrameValues(confCfg, maState[s].m1)
             /\ FrameValues(confCfg, maState'[s].m3) = FrameValues(confCfg, maState[s].m3)
             /\ FrameValues(confCfg, maState'[s].m15) = FrameValues(confCfg, maState[s].m15)
    ]_vars

\* how many times the confluence block has run for the symbol whose state is st:
\* each run pushes one volume (updateVolumeZ keeps the last 30) and produces one
\* value of every moving average
Produced(st) == Len(st.vol.arr)

\* the timeframes of st with their slope lookbacks
Lookbacks(c, st) == { <<st.m1, c.k1>>, <<st.m3, c.k3>>, <<st.m15, c.k15>> }

\* C29: the slope looks k values back: once more than k values of a timeframe's
\* moving averages have been produced, each of them has more than k values in its
\* history, so that lag() returns the value of k runs earlier and not its
\* fallback, the current value.
C29_SlopeLooksBack ==
  \A s \in DOMAIN maState :
    \A f \in Lookbacks(confCfg, maState[s]) :
      Produced(maState[s]) > f[2]
        => \A u \in {f[1].len5, f[1].len10, f[1].len30} : Len(u.hist) > f[2]

\* the timeframes the handler aggregates from 1m bars: frame name, seconds, and
\* number of 1m bars
Aggregated == { <<"3m", 180, 3>>, <<"15m", 900, 15>> }

\* C27: the aggregated bars are the bucketed bars: whenever the confluence block
\* would run (MinBars closed 1m bars), the bar aggregateN makes for a timeframe
\* opens at the start of one of that timeframe's buckets, and on a tick at which
\* BarAgg closes the timeframe's bar, it has that bar's open time and close.
C27_AggregatedIsBucketed ==
  [][ \A f \in Aggregated :
        Len(books'["BTC_USDT"].m1) >= MinBars
          => /\ aggregateN(books'["BTC_USDT"].m1, f[3]).t % (f[2] * 1000) = 0
             /\ agg'[f[1]]["BTC_USDT"].start # agg[f[1]]["BTC_USDT"].start
                  => /\ aggregateN(books'["BTC_USDT"].m1, f[3]).t
                          = agg[f[1]]["BTC_USDT"].start
                     /\ aggregateN(books'["BTC_USDT"].m1, f[3]).c
                          = agg[f[1]]["BTC_USDT"].close
    ]_vars

\* the three averages of the period map m all rose (up) or all fell on its last
\* update
AllMoved(m, up) ==
  \A p \in {5, 10, 30} :
    /\ m[p].prev # Null
    /\ IF up THEN RLt(m[p].prev, m[p].val) ELSE RLt(m[p].val, m[p].prev)

\* C32: a timeframe reported UP has, after the bar close, three averages that
\* rose and stand MA(5) > MA(10) > MA(30); one reported DOWN has three that fell
\* and stand MA(5) < MA(10) < MA(30).
C32_AlignedOrientation ==
  \A k \in DOMAIN slopeStore :
    /\ slopeStore[k].dir = "UP"
         => /\ AllMoved(emaStore[k], TRUE)
            /\ RLt(emaStore[k][10].val, emaStore[k][5].val)
            /\ RLt(emaStore[k][30].val, emaStore[k][10].val)
    /\ slopeStore[k].dir = "DOWN"
         => /\ AllMoved(emaStore[k], FALSE)
            /\ RLt(emaStore[k][5].val, emaStore[k][10].val)
            /\ RLt(emaStore[k][10].val, emaStore[k][30].val)

\* the alignment signal of symbol s in direction d is among the alerts ev
Signalled(ev, s, d) ==
  \E i \in DOMAIN ev :
    ev[i].type = "ma_align_all" /\ ev[i].symbol = s /\ ev[i].side = d

\* the spike alert is among the alerts ev
SpikeAlerted(ev) == \E i \in DOMAIN ev : ev[i].type = "spike"

\* the entry handled in this step closed a bar of symbol s in some frame
BarClosed(s) ==
  \E n \in FrameNames : s \in DOMAIN agg[n] /\ agg'[n][s].start # agg[n][s].start

\* C31: the two cooldowns are separate. A signal for a symbol comes no sooner
\* than the alignment cooldown after the previous one; whether an entry raises the
\* signal depends on the bars, the alignment and the time of the last signal only,
\* and whether it raises the spike alert on what spike.update returns only.
C31_CooldownsIndependent ==
  [][ /\ \A s \in {"BTC_USDT", "ETH_USDT"}, d \in {"UP", "DOWN"} :
           /\ (Signalled(emitted', s, d) /\ s \in DOMAIN lastAlert)
                => tick'.ts >= lastAlert[s] + maCfg.cool * 1000
           /\ Signalled(emitted', s, d)
                <=> /\ maCfg.enable /\ tick'.accepted /\ tick'.sym = s
                    /\ BarClosed(s)
                    /\ allFramesAgree(slopeStore', s) = [ok |-> TRUE, dir |-> d]
                    /\ tick'.ts >= (IF s \in DOMAIN lastAlert THEN lastAlert[s] ELSE 0)
                                      + maCfg.cool * 1000
      /\ SpikeAlerted(emitted')
           <=> /\ tick'.accepted
               /\ SpikeUpdate(spikeCfg, spike, tick'.sym, tick'.price, tick'.ts).res.is
    ]_vars

\* an entry that raised the spike alert and the alignment signal together
C31_SpikeWithSignal ==
  /\ SpikeAlerted(emitted)
  /\ \E d \in {"UP", "DOWN"} : Signalled(emitted, tick.sym, d)

\* a confluence alert among the alerts of the last message
ConfluenceAlerted(ev) == \E i \in DOMAIN ev : ev[i].type = "confluence"

\* C37: with every slope dead zone >= 0 the inline confluence emits no signal,
\* whatever the closes: no unit's hist is appended to, so every lookback is the
\* current value and every slope is 0.
C37_InlineConfluenceSilent ==
  (confCfg.dz1[1] >= 0 /\ confCfg.dz3[1] >= 0 /\ confCfg.dz15[1] >= 0)
    => /\ ~ConfluenceAlerted(emitted)
       /\ cdConfluence = <<>>
       /\ \A s \in DOMAIN maState :
            \A fr \in {"m1", "m3", "m15"}, u \in {"len5", "len10", "len30"} :
              maState[s][fr][u].hist = <<>>

\* the block ran twice on rising closes with every gate but the slopes open
C37_RisingAndSilent ==
  /\ confCfg = ConfLenient
  /\ "BTC_USDT" \in DOMAIN maState
  /\ Produced(maState["BTC_USDT"]) >= 2
  /\ LET w == maState["BTC_USDT"].m1.len5.smaWin
     IN  Len(w) >= 2 /\ RLt(w[Len(w) - 1], w[Len(w)])
  /\ ~ConfluenceAlerted(emitted)

C26_BucketsCloseOnce ==
  [][ \A n \in FrameNames : \A s \in DOMAIN agg[n] :
        agg'[n][s].start >= agg[n][s].start ]_vars

-----------------------------------------------------------------------------
(* The order executor: createExecutor *)

MaxExecCalls == 4

ExecSymbols == {"BTC_USDT", "ETH_USDT"}

\* httpPost(path, body, apiKey, apiSecret): the signed request goes out whatever
\* the answer is
httpPost(sent, path, symbol) == Append(sent, [path |-> path, symbol |-> symbol])

\* ensureSymbolConfig(symbol, positionType): ensurePositionMode('2'), then
\* setLeverageNoPosition(symbol, positionType, leverage), each with .catch
ensureSymbolConfig(sent, symbol) ==
  httpPost(httpPost(sent, "/api/v1/private/position/change_position_mode", "-"),
           "/api/v1/private/position/change_leverage", symbol)

\* entryByNotional(symbol, side, price, notional)
entryByNotional(c, sent, symbol) ==
  IF ~c.execute
    THEN [requests |-> sent, ret |-> [op |-> "entryByNotional", dryRun |-> TRUE]]
    ELSE [requests |-> httpPost(sent, "/api/v1/private/order/submit", symbol),
          ret |-> [op |-> "entryByNotional", dryRun |-> FALSE]]

\* cancelAll(symbol): closeAll(symbol)
cancelAll(sent, symbol) == httpPost(sent, "/api/v1/private/order/cancel_all", symbol)

ExecEnsure ==
  /\ nExec < MaxExecCalls
  /\ \E symbol \in ExecSymbols :
       requests' = ensureSymbolConfig(requests, symbol)
  /\ execRet' = [op |-> "ensureSymbolConfig", dryRun |-> FALSE]
  /\ nExec' = nExec + 1
  /\ UNCHANGED <<execCfg, lev, feedVars>>
  /\ UNCHANGED <<spikeVars, uniVars, scanVars, tmVars, maVars>>

ExecEntry ==
  /\ nExec < MaxExecCalls
  /\ \E symbol \in ExecSymbols :
       /\ requests' = entryByNotional(execCfg, requests, symbol).requests
       /\ execRet' = entryByNotional(execCfg, requests, symbol).ret
  /\ nExec' = nExec + 1
  /\ UNCHANGED <<execCfg, lev, feedVars>>
  /\ UNCHANGED <<spikeVars, uniVars, scanVars, tmVars, maVars>>

ExecCancel ==
  /\ nExec < MaxExecCalls
  /\ \E symbol \in ExecSymbols :
       requests' = cancelAll(requests, symbol)
  /\ execRet' = [op |-> "cancelAll", dryRun |-> FALSE]
  /\ nExec' = nExec + 1
  /\ UNCHANGED <<execCfg, lev, feedVars>>
  /\ UNCHANGED <<spikeVars, uniVars, scanVars, tmVars, maVars>>

ExecInit ==
  /\ execCfg \in [execute : BOOLEAN]
  /\ ExecStart
  /\ feedCfg = FeedDefaults
  /\ FeedStart
  /\ spikeCfg = ExampleConfig
  /\ SpikeStart
  /\ UniIdle
  /\ ScanIdle
  /\ TMIdle
  /\ MAIdle

ExecNext == ExecEnsure \/ ExecEntry \/ ExecCancel

SpecExecutor == ExecInit /\ [][ExecNext]_vars

-----------------------------------------------------------------------------
(* Claims about the executor *)

\* C19: with execute = false no call on the executor sends a request to a
\* private exchange endpoint, and entryByNotional returns a dry-run record.
C19_PaperOnlySendsNothing ==
  ~execCfg.execute =>
    /\ requests = <<>>
    /\ (execRet.op = "entryByNotional" => execRet.dryRun)

-----------------------------------------------------------------------------
(* The leverage cache: lib/leverage.js *)

MaxLevCalls == 3

\* how far Date.now() advances, in half TTLs
MaxLevNow == 2

\* CACHE_TTL_MS = 24 * 60 * 60 * 1000
CacheTtlMs == 86400000

\* a symbol is the sequence of its characters
USDT == <<"U", "S", "D", "T">>

\* what callers pass as alert.symbol: normalized, lower case with a character
\* that is stripped and no separator, the quote currency alone, nothing
RawSymbols ==
  { <<"B", "T", "C", "_">> \o USDT,
    <<"b", "t", "c", "/", "u", "s", "d", "t">>,
    USDT,
    <<>> }

\* String(raw).toUpperCase(), on the characters of the model
toUpperCase(ch) ==
  CASE ch = "b" -> "B" [] ch = "t" -> "T" [] ch = "c" -> "C" [] ch = "u" -> "U"
    [] ch = "s" -> "S" [] ch = "d" -> "D" [] OTHER -> ch

\* what .replace(/[^A-Z0-9_]/g, '') keeps
Kept(ch) == ch \in {"B", "C", "D", "S", "T", "U", "_"}

\* normSymbol(raw); null and '' are both <<>>, callers test `!k`
normSymbol(raw) ==
  IF raw = <<>> THEN <<>>
  ELSE LET s == SelectSeq([i \in DOMAIN raw |-> toUpperCase(raw[i])], Kept)
       IN  IF "_" \in ToSet(s) THEN s
           ELSE IF Len(s) > 4 /\ SubSeq(s, Len(s) - 3, Len(s)) = USDT
                  THEN SubSeq(s, 1, Len(s) - 4) \o <<"_">> \o USDT
                  ELSE s

\* fetchLeverage(sym) resolves with null (request failed, not ok, no leverage
\* key, not a positive number) or with Math.round(levNum)
FetchResults == {0, 20}

NoLev == -1

\* peek(symbol)
peek(cache, symbol) ==
  LET k == normSymbol(symbol)
  IN  IF k = <<>> THEN NoLev
      ELSE IF k \notin DOMAIN cache THEN NoLev
      ELSE cache[k].lev

\* ensure(symbol) up to its await, were it to fetch whatever the cache holds
ensureAlways(st, symbol) ==
  LET k == normSymbol(symbol)
  IN  IF k = <<>> THEN [st EXCEPT !.ret = [op |-> "ensure", k |-> k, fetch |-> FALSE]]
      ELSE [st EXCEPT !.flights = @ \cup {[k |-> k, now |-> st.now, id |-> st.n]},
                      !.ret = [op |-> "ensure", k |-> k, fetch |-> TRUE]]

\* ensure(symbol) up to its await: a fresh record is returned, otherwise
\* fetchLeverage(k) is called with `now` taken before the fetch
ensure(st, symbol) ==
  LET k == normSymbol(symbol)
  IN  IF k = <<>> THEN [st EXCEPT !.ret = [op |-> "ensure", k |-> k, fetch |-> FALSE]]
      ELSE IF k \in DOMAIN st.cache /\ st.now - st.cache[k].ts < CacheTtlMs
        THEN [st EXCEPT !.ret = [op |-> "ensure", k |-> k, fetch |-> FALSE]]
      ELSE [st EXCEPT !.flights = @ \cup {[k |-> k, now |-> st.now, id |-> st.n]},
                      !.ret = [op |-> "ensure", k |-> k, fetch |-> TRUE]]

\* ensure(symbol) after its await: if (lev != null) levCache.set(k, { lev, ts: now })
ensureSettled(st, f, res) ==
  [st EXCEPT !.flights = @ \ {f},
             !.cache = IF res = NoLev THEN @ ELSE MapSet(@, f.k, [lev |-> res, ts |-> f.now]),
             !.ret = [op |-> "settled", k |-> f.k, lev |-> res]]

\* attachSync(alert): the copy gets max_lev when peek knows one, ensure is
\* called and not awaited
attachSync(st, symbol) ==
  [ensure(st, symbol) EXCEPT
     !.ret = [op |-> "attachSync", k |-> normSymbol(symbol),
              max_lev |-> peek(st.cache, symbol),
              fetch |-> ensure(st, symbol).ret.fetch]]

LevEnsure ==
  /\ lev.n < MaxLevCalls
  /\ \E symbol \in RawSymbols : lev' = [ensure(lev, symbol) EXCEPT !.n = @ + 1]
  /\ UNCHANGED <<execCfg, requests, execRet, nExec, feedVars>>
  /\ UNCHANGED <<spikeVars, uniVars, scanVars, tmVars, maVars>>

LevPeek ==
  /\ lev.n < MaxLevCalls
  /\ \E symbol \in RawSymbols :
       lev' = [lev EXCEPT !.n = @ + 1,
                          !.ret = [op |-> "peek", k |-> normSymbol(symbol),
                                   max_lev |-> peek(lev.cache, symbol)]]
  /\ UNCHANGED <<execCfg, requests, execRet, nExec, feedVars>>
  /\ UNCHANGED <<spikeVars, uniVars, scanVars, tmVars, maVars>>

LevAttach ==
  /\ lev.n < MaxLevCalls
  /\ \E symbol \in RawSymbols : lev' = [attachSync(lev, symbol) EXCEPT !.n = @ + 1]
  /\ UNCHANGED <<execCfg, requests, execRet, nExec, feedVars>>
  /\ UNCHANGED <<spikeVars, uniVars, scanVars, tmVars, maVars>>

\* the fetch of one ensure call settles
LevFetchSettles ==
  /\ \E f \in lev.flights, res \in FetchResults \cup {NoLev} :
       lev' = ensureSettled(lev, f, res)
  /\ UNCHANGED <<execCfg, requests, execRet, nExec, feedVars>>
  /\ UNCHANGED <<spikeVars, uniVars, scanVars, tmVars, maVars>>

\* half a TTL passes
LevTimePasses ==
  /\ lev.now < MaxLevNow * (CacheTtlMs \div 2)
  /\ lev' = [lev EXCEPT !.now = @ + CacheTtlMs \div 2, !.ret = [op |-> "-"]]
  /\ UNCHANGED <<execCfg, requests, execRet, nExec, feedVars>>
  /\ UNCHANGED <<spikeVars, uniVars, scanVars, tmVars, maVars>>

LevInit ==
  /\ execCfg = [execute |-> TRUE]
  /\ ExecStart
  /\ feedCfg = FeedDefaults
  /\ FeedStart
  /\ spikeCfg = ExampleConfig
  /\ SpikeStart
  /\ UniIdle
  /\ ScanIdle
  /\ TMIdle
  /\ MAIdle

LevNext == LevEnsure \/ LevPeek \/ LevAttach \/ LevFetchSettles \/ LevTimePasses

SpecLeverage == LevInit /\ [][LevNext]_vars

-----------------------------------------------------------------------------
(* Claims about the leverage cache *)

\* a fetch was issued in this step, for key k
Fetching(k) == \E f \in lev'.flights \ lev.flights : f.k = k

LevKeys == {normSymbol(raw) : raw \in RawSymbols}

\* C35: ensure issues a fetch only for a normalized symbol that has no cache
\* entry or whose entry is at least 24 h old; a fetch that settles without a
\* valid leverage leaves the cache as it was; peek and attachSync return at
\* once, fetch in flight or not, and report max_lev exactly when the cache has
\* an entry for the normalized symbol when they are called, with its value.
C35_LeverageCache ==
  [][ /\ \A k \in LevKeys :
           Fetching(k)
             => /\ k # <<>>
                /\ lev'.ret.op \in {"ensure", "attachSync"}
                /\ (k \notin DOMAIN lev.cache
                      \/ lev.now - lev.cache[k].ts >= CacheTtlMs)
      /\ (lev'.ret.op = "settled" /\ lev'.ret.lev = NoLev) => lev'.cache = lev.cache
      /\ lev'.cache # lev.cache => (lev'.ret.op = "settled" /\ lev'.ret.lev # NoLev)
      /\ lev'.ret.op \in {"peek", "attachSync"}
           => /\ lev'.n = lev.n + 1
              /\ lev'.cache = lev.cache
              /\ lev'.ret.max_lev
                   = (IF lev'.ret.k # <<>> /\ lev'.ret.k \in DOMAIN lev.cache
                        THEN lev.cache[lev'.ret.k].lev ELSE NoLev)
    ]_vars

\* a refresh of an entry that is 24 h old failed and the entry is still there
C35_StaleEntrySurvivedFailure ==
  /\ lev.ret.op = "settled"
  /\ lev.ret.lev = NoLev
  /\ lev.ret.k \in DOMAIN lev.cache
  /\ lev.now - lev.cache[lev.ret.k].ts >= CacheTtlMs

-----------------------------------------------------------------------------
(* The feed connection of the spike workers: runLoop / run and their handlers *)

MaxFeedMsgs == 2

MaxCloses == 1

\* how far Date.now() advances, in refresh intervals
MaxNow == 1

\* MAX_AGE_MS = 15*60*1000 + 5000
MaxAgeMs == 905000

\* what one build can settle with
BuildResults == {{}, {"BTC_USDT"}, {"BTC_USDT", "ETH_USDT"}}

FeedUniverseConfigs ==
  { [variant |-> v[1], zeroFeeOnly |-> v[2], fallbackToAll |-> FALSE, maxTakerFee |-> 0,
     whitelist |-> {}, override |-> {}, force |-> "", minUniverse |-> v[3]] :
      v \in {<<"merge", FALSE, 0>>, <<"finalize", FALSE, 2>>, <<"detail", FALSE, 0>>,
             <<"detail", TRUE, 0>>, <<"run", FALSE, 0>>} }

\* a short refresh interval; every sink configured and an SSE client whose
\* write throws, or no sink at all
FeedConfigs ==
  { [refresh |-> 2000, webhook |-> TRUE, telegram |-> TRUE, sse |-> "throws"],
    [refresh |-> 2000, webhook |-> FALSE, telegram |-> FALSE, sse |-> "none"] }

\* an element of msg.data: null, or an object with symbol and lastPrice
NullEntry == [symbol |-> "null", lastPrice |-> 0]

Entry(sym, price) == [symbol |-> sym, lastPrice |-> price]

\* ts = -1 stands for a message without ts; a message with ts carries the time
\* it is received at
Tickers(ts, data) == [kind |-> "tickers", ts |-> ts, data |-> data]

\* what the socket delivers: text that is not JSON, a message of another
\* channel, push.tickers whose data is not an array, and push.tickers arrays
FeedMessages ==
  { [kind |-> "garbage", ts |-> 0, data |-> <<>>],
    [kind |-> "pong", ts |-> 0, data |-> <<>>],
    [kind |-> "nodata", ts |-> 0, data |-> <<>>],
    Tickers(0, <<Entry("BTC_USDT", 4), Entry("ETH_USDT", 4)>>),
    Tickers(0, <<Entry("BTC_USDT", 5), Entry("ETH_USDT", 5)>>),
    Tickers(0, <<Entry("BTC_USDT", 0)>>),
    Tickers(-1, <<Entry("BTC_USDT", 6)>>),
    Tickers(0, <<NullEntry, Entry("BTC_USDT", 4)>>) }

\* ws = new WebSocket(WS_URL), with untilTs = Date.now() + UNIVERSE_REFRESH_SEC*1000
NewSocket(c, t) == [ws |-> "connecting", ping |-> FALSE, untilTs |-> t + c.refresh,
                    retry |-> FALSE]

\* if (!sym || !set.has(sym)) continue; the detail-only worker and run() test
\* the set only when it is not empty
Filtered(variant, set, sym) ==
  IF variant \in {"detail", "run"}
    THEN set # {} /\ sym \notin set
    ELSE sym \notin set

\* if (price <= 0) continue; run() has no such test
BadPrice(variant, price) == variant # "run" /\ price <= 0

\* while (arr.length && arr[0].t < cutoff) arr.shift()
RECURSIVE DropOld(_, _)
DropOld(arr, cutoff) ==
  IF arr # <<>> /\ Head(arr).t < cutoff THEN DropOld(Tail(arr), cutoff) ELSE arr

\* pushPrice(sym, ts, price), of src/index.js only
pushPrice(variant, hist, sym, ts, price) ==
  IF variant # "merge" THEN hist
  ELSE MapSet(hist, sym,
              DropOld(Append(IF sym \in DOMAIN hist THEN hist[sym] ELSE <<>>,
                             [t |-> ts, p |-> price]),
                      ts - MaxAgeMs))

\* postJson(url, payload), sendTelegram(text): one fetch each when configured
Started(c) == (IF c.webhook THEN 1 ELSE 0) + (IF c.telegram THEN 1 ELSE 0)

\* an SSE client whose write throws stops the handler
pushAlertUncaught(c, st) == IF c.sse = "throws" THEN [st EXCEPT !.crashed = TRUE] ELSE st

\* pushAlert(a): every res.write(line) is inside try {} catch {}
pushAlert(c, st) == st

\* postJson(TV_WEBHOOK_URL, payload); sendTelegram(line): started, not awaited
Requested(c, st) == IF st.crashed THEN st ELSE [st EXCEPT !.posts = @ + Started(c)]

\* the fan-out of one alert: pushAlert first, then the two requests
Raise(c, st, sym, price, res) ==
  Requested(c, pushAlert(c, [st EXCEPT !.alerts = Append(@, Alert("spike", sym, res.dir,
                                                               price))]))

\* the loop body after spike.update returned r
Updated(c, st, sym, price, ts, hist, r) ==
  IF ~r.res.is
    THEN [st EXCEPT !.eng = r.eng, !.hist = hist]
    ELSE Raise(c, [st EXCEPT !.eng = r.eng, !.hist = hist,
                             !.fired = Append(@, <<sym, ts>>)],
               sym, price, r.res)

\* the loop body for one element x of msg.data; x.symbol of null throws
onItem(c, variant, set, sc, st, x, ts) ==
  IF x = NullEntry THEN [st EXCEPT !.crashed = TRUE]
  ELSE IF Filtered(variant, set, x.symbol) \/ BadPrice(variant, x.lastPrice) THEN st
  ELSE Updated(c, st, x.symbol, x.lastPrice, ts,
               pushPrice(variant, st.hist, x.symbol, ts, x.lastPrice),
               SpikeUpdate(sc, st.eng, x.symbol, x.lastPrice, ts))

\* for (const x of msg.data) { ... }
RECURSIVE onData(_, _, _, _, _, _, _, _)
onData(c, variant, set, sc, data, i, ts, st) ==
  IF i > Len(data) \/ st.crashed THEN st
  ELSE onData(c, variant, set, sc, data, i + 1, ts,
              onItem(c, variant, set, sc, st, data[i], ts))

\* const ts = Number(msg.ts || Date.now())
TsOf(m, t) == IF m.ts = -1 \/ m.ts = 0 THEN t ELSE m.ts

\* the 'message' handler below the deadline test: what it leaves behind
onMessage(c, variant, set, sc, m, t, st) ==
  IF m.kind # "tickers" THEN st
  ELSE onData(c, variant, set, sc, m.data, 1, TsOf(m, t), st)

\* a push.tickers message that has a ts is stamped with the time it arrives at
Stamp(m, t) == IF m.kind = "tickers" /\ m.ts # -1 THEN [m EXCEPT !.ts = t] ELSE m

\* the handler starts from the module state and has raised nothing yet
Before == [eng |-> spike, hist |-> priceHist, fired |-> fired, alerts |-> <<>>,
           posts |-> 0, crashed |-> FALSE]

\* the state the handler leaves; an exception that escapes the listener is
\* uncaught and ends the process
Received(st) ==
  /\ spike' = st.eng
  /\ priceHist' = st.hist
  /\ fired' = st.fired
  /\ emitted' = st.alerts
  /\ posts' = posts + st.posts
  /\ pending' = pending + st.posts
  /\ upc' = IF st.crashed THEN "crashed" ELSE upc
  /\ conn' = conn

\* ws.on('close'): stop() in runLoop; in run() clearInterval(pingTimer) and
\* setTimeout(() => connect(), 2000)
onCloseNoRetry(variant, cn) == NoConn

onClose(variant, cn) ==
  IF variant = "run" THEN [NoConn EXCEPT !.retry = TRUE] ELSE NoConn

\* `universe = await buildUniverse()` settles, the guards run and, when they
\* pass, the socket is constructed
FeedBuild ==
  /\ upc = "build"
  /\ \E u \in BuildResults, threw \in BOOLEAN :
       /\ threw => u = {}
       /\ AfterBuild(u, threw)
  /\ nBuilds' = IF nBuilds < MaxBuilds THEN nBuilds + 1 ELSE nBuilds
  /\ conn' = IF upc' = "connected" THEN NewSocket(feedCfg, dateNow) ELSE conn
  /\ nConn' = IF upc' = "connected" THEN nConn + 1 ELSE nConn
  /\ UNCHANGED <<uCfg, u1, u2, u3, requested, detailRows, failedSrc>>
  /\ UNCHANGED <<feedCfg, dateNow, msg, priceHist, pending, posts, nClose, stale>>
  /\ UNCHANGED <<spikeVars, scanVars, tmVars, maVars, execVars>>

\* ws.on('open'): sub.tickers is sent and the ping interval starts
WsOpen ==
  /\ upc = "connected"
  /\ conn.ws = "connecting"
  /\ conn' = [conn EXCEPT !.ws = "open", !.ping = TRUE]
  /\ UNCHANGED <<feedCfg, dateNow, msg, priceHist, pending, posts, nConn, nClose, stale>>
  /\ UNCHANGED <<spikeVars, uniVars, scanVars, tmVars, maVars, execVars>>

\* stop() called ws.close(): until the socket emits 'close' its listeners stay
\* attached, with the untilTs and the set of the iteration that made it
Stopped(old, cn, set) ==
  [old EXCEPT !.socks = @ \cup {[untilTs |-> cn.untilTs, set |-> set, ping |-> FALSE]}]

\* ws.on('message'): past the deadline runLoop stops, otherwise the message is
\* parsed and its entries handled; `lingers` says whether the stopped socket
\* still has messages to deliver
Receive(messages, lingers) ==
  /\ upc = "connected"
  /\ conn.ws = "open"
  /\ nMsgs < MaxFeedMsgs
  /\ \E m \in messages :
       /\ msg' = Stamp(m, dateNow)
       /\ IF uCfg.variant # "run" /\ dateNow >= conn.untilTs
            THEN /\ conn' = NoConn
                 /\ upc' = "build"
                 /\ emitted' = <<>>
                 /\ stale' = IF lingers THEN Stopped(stale, conn, useSet) ELSE stale
                 /\ UNCHANGED <<spike, priceHist, fired, posts, pending>>
            ELSE /\ Received(onMessage(feedCfg, uCfg.variant, useSet, spikeCfg,
                                       Stamp(m, dateNow), dateNow, Before))
                 /\ stale' = stale
  /\ nMsgs' = nMsgs + 1
  /\ UNCHANGED <<spikeCfg, out, maxAp, nTicks, scriptPos>>
  /\ UNCHANGED <<uCfg, u1, u2, u3, requested, detailRows, universe, useSet, nBuilds,
                 failedSrc, buildThrew>>
  /\ UNCHANGED <<trailImpl, trailCfg, confCfg, cdSpike, trails, books, maState,
                 cdConfluence, tick, clock>>
  /\ UNCHANGED <<feedCfg, dateNow, nConn, nClose>>
  /\ UNCHANGED <<tmVars, maVars, execVars>>

WsMessage == Receive(FeedMessages, FALSE)

\* ws.on('close'), before or after 'open'
WsClose ==
  /\ upc = "connected"
  /\ conn.ws \in {"connecting", "open"}
  /\ nClose < MaxCloses
  /\ nClose' = nClose + 1
  /\ conn' = onClose(uCfg.variant, conn)
  /\ upc' = IF uCfg.variant = "run" THEN upc ELSE "build"
  /\ UNCHANGED <<uCfg, u1, u2, u3, requested, detailRows, universe, useSet, nBuilds,
                 failedSrc, buildThrew>>
  /\ UNCHANGED <<feedCfg, dateNow, msg, priceHist, pending, posts, nConn, stale>>
  /\ UNCHANGED <<spikeVars, scanVars, tmVars, maVars, execVars>>

\* the 2 s timer of the close handler fires: connect()
ReconnectTimer ==
  /\ upc = "connected"
  /\ conn.retry
  /\ conn' = NewSocket(feedCfg, dateNow)
  /\ nConn' = nConn + 1
  /\ UNCHANGED <<feedCfg, dateNow, msg, priceHist, pending, posts, nClose, stale>>
  /\ UNCHANGED <<spikeVars, uniVars, scanVars, tmVars, maVars, execVars>>

\* a refresh interval passes
TimePasses ==
  /\ upc \notin {"crashed", "exited"}
  /\ dateNow < MaxNow * feedCfg.refresh
  /\ dateNow' = dateNow + feedCfg.refresh
  /\ UNCHANGED <<feedCfg, conn, msg, priceHist, pending, posts, nConn, nClose, stale>>
  /\ UNCHANGED <<spikeVars, uniVars, scanVars, tmVars, maVars, execVars>>

\* the fetch of postJson or sendTelegram resolves, or rejects and is logged
DeliverySettles ==
  /\ upc \notin {"crashed", "exited"}
  /\ pending > 0
  /\ pending' = pending - 1
  /\ UNCHANGED <<feedCfg, conn, dateNow, msg, priceHist, posts, nConn, nClose, stale>>
  /\ UNCHANGED <<spikeVars, uniVars, scanVars, tmVars, maVars, execVars>>

FeedInit ==
  /\ uCfg \in FeedUniverseConfigs
  /\ UniStart
  /\ feedCfg \in FeedConfigs
  /\ FeedStart
  /\ spikeCfg = EagerSpikeConfig
  /\ SpikeStart
  /\ ScanIdle
  /\ TMIdle
  /\ MAIdle
  /\ execCfg = [execute |-> TRUE]
  /\ ExecStart

FeedNext ==
  \/ FeedBuild
  \/ SleepDone
  \/ WsOpen
  \/ WsMessage
  \/ WsClose
  \/ ReconnectTimer
  \/ TimePasses
  \/ DeliverySettles

SpecFeed == FeedInit /\ [][FeedNext]_vars

\* the same workers with no alert sink configured, receiving a message that is
\* ignored, a first tick, or an array with a null entry
LiveMessages ==
  { [kind |-> "pong", ts |-> 0, data |-> <<>>],
    Tickers(0, <<Entry("BTC_USDT", 4), Entry("ETH_USDT", 4)>>),
    Tickers(0, <<NullEntry, Entry("BTC_USDT", 4)>>) }

WsMessageLive == Receive(LiveMessages, FALSE)

FeedLiveInit ==
  /\ FeedInit
  /\ ~feedCfg.webhook

FeedLiveNext ==
  \/ FeedBuild
  \/ SleepDone
  \/ WsOpen
  \/ WsMessageLive
  \/ WsClose
  \/ ReconnectTimer
  \/ TimePasses

\* the loop and the timers of the process make progress; what the exchange
\* sends, and when, is up to the exchange
SpecFeedLive ==
  /\ FeedLiveInit
  /\ [][FeedLiveNext]_vars
  /\ WF_vars(FeedBuild)
  /\ WF_vars(SleepDone)
  /\ WF_vars(ReconnectTimer)

\* the runLoop workers when the socket stop() closed still has messages to
\* deliver before its 'close'
StopMessages ==
  { [kind |-> "pong", ts |-> 0, data |-> <<>>],
    Tickers(0, <<Entry("BTC_USDT", 4), Entry("ETH_USDT", 4)>>),
    Tickers(0, <<Entry("BTC_USDT", 5)>>) }

WsMessageStop == Receive(StopMessages, TRUE)

\* the 'message' listener of a stopped socket, were it to skip the deadline test
onStoppedNoDeadline(c, variant, s, sc, m, t, st) ==
  onMessage(c, variant, s.set, sc, m, t, st)

\* the 'message' listener of a stopped socket: the same closure, with its own
\* untilTs and set; past the deadline stop() runs again, which clears a cleared
\* timer, closes a closing socket and resolves a resolved promise
onStopped(c, variant, s, sc, m, t, st) ==
  IF t >= s.untilTs THEN st
  ELSE onMessage(c, variant, s.set, sc, m, t, st)

\* a message arrives on a socket that was stopped
StaleMessage ==
  /\ upc \notin {"crashed", "exited"}
  /\ nMsgs < MaxFeedMsgs
  /\ \E s \in stale.socks, m \in StopMessages :
       /\ msg' = Stamp(m, dateNow)
       /\ Received(onStopped(feedCfg, uCfg.variant, s, spikeCfg, Stamp(m, dateNow),
                             dateNow, Before))
  /\ stale' = [stale EXCEPT !.got = @ + 1]
  /\ nMsgs' = nMsgs + 1
  /\ UNCHANGED <<spikeCfg, out, maxAp, nTicks, scriptPos>>
  /\ UNCHANGED <<uCfg, u1, u2, u3, requested, detailRows, universe, useSet, nBuilds,
                 failedSrc, buildThrew>>
  /\ UNCHANGED <<trailImpl, trailCfg, confCfg, cdSpike, trails, books, maState,
                 cdConfluence, tick, clock>>
  /\ UNCHANGED <<feedCfg, dateNow, nConn, nClose>>
  /\ UNCHANGED <<tmVars, maVars, execVars>>

\* the stopped socket emits 'close': stop() once more, and nothing after it
StaleClose ==
  /\ upc \notin {"crashed", "exited"}
  /\ \E s \in stale.socks : stale' = [stale EXCEPT !.socks = @ \ {s}]
  /\ UNCHANGED <<feedCfg, conn, dateNow, msg, priceHist, pending, posts, nConn, nClose>>
  /\ UNCHANGED <<spikeVars, uniVars, scanVars, tmVars, maVars, execVars>>

FeedStopInit ==
  /\ FeedInit
  /\ ~feedCfg.webhook
  /\ uCfg.variant \in {"merge", "detail", "run"}

FeedStopNext ==
  \/ FeedBuild
  \/ SleepDone
  \/ WsOpen
  \/ WsMessageStop
  \/ StaleMessage
  \/ StaleClose
  \/ WsClose
  \/ ReconnectTimer
  \/ TimePasses

SpecFeedStop == FeedStopInit /\ [][FeedStopNext]_vars

-----------------------------------------------------------------------------
(* Claims about the feed connection *)

\* a message was received in this step
Delivered == nMsgs' = nMsgs + 1

\* nothing a component keeps was touched and no alert went out
Untouched ==
  /\ spike' = spike
  /\ priceHist' = priceHist
  /\ fired' = fired
  /\ posts' = posts
  /\ emitted' = <<>>

\* an entry for a symbol outside the active universe, or without a positive price
Droppable(x) == x # NullEntry /\ (x.symbol \notin universe \/ x.lastPrice <= 0)

\* C13: a ticker entry whose symbol is not in the active universe, or whose
\* price is not positive, reaches no component and raises no alert, for every
\* active universe, the empty one included.
C13_DroppedEntriesReachNothing ==
  [][ (Delivered /\ msg'.kind = "tickers"
         /\ \A i \in DOMAIN msg'.data : Droppable(msg'.data[i]))
        => Untouched ]_vars

\* C14: no feed message ends the process, and a message that is not a
\* well-formed push.tickers message changes no component state.
C14_MalformedMessagesAreNoOps ==
  [][ Delivered =>
        /\ upc' # "crashed"
        /\ (msg'.kind # "tickers" => Untouched) ]_vars

\* C15: once the refresh interval has elapsed since the connection was started,
\* the loop leaves the connection to rebuild the universe, even when the
\* connection delivers nothing more and does not close.  The interval has
\* elapsed on an open connection on which a message and a close are both still
\* possible.
C15_RefreshWithoutTraffic ==
  (uCfg.variant # "run" /\ upc = "connected" /\ conn.ws = "open"
     /\ dateNow >= conn.untilTs /\ nMsgs < MaxFeedMsgs /\ nClose < MaxCloses)
    ~> (upc \in {"build", "crashed"})

\* C16: a close of the feed connection, before or after it opened, does not end
\* the process, and it leads to a new connection: in runLoop after the rebuild,
\* unless that build yields no usable universe, in run() after the timer.
C16_ReconnectAfterClose ==
  /\ [][ nClose' = nClose + 1 => upc' \notin {"crashed", "exited"} ]_vars
  /\ ((nClose > 0 /\ conn.ws = "none" /\ upc \in {"build", "connected"})
        ~> (conn.ws = "connecting" \/ upc \in {"sleep", "exited"}))

C16_Reconnected == nClose > 0 /\ nConn >= 2 /\ conn.ws = "open"

\* C17: after a refresh the detector keeps state only for symbols of the
\* universe in use: the state of a removed symbol is discarded.
C17_RemovedSymbolStateDiscarded ==
  (uCfg.variant \in {"merge", "finalize"} /\ upc = "connected")
    => (DOMAIN spike.last \subseteq useSet /\ DOMAIN priceHist \subseteq useSet)

\* an entry the handler of this worker lets through to the detector
Passes(x) ==
  /\ x # NullEntry
  /\ ~Filtered(uCfg.variant, useSet, x.symbol)
  /\ ~BadPrice(uCfg.variant, x.lastPrice)

DeliveredOnStopped == stale'.got = stale.got + 1

\* the detector took a tick of this symbol in this step
Processed(sym) ==
  /\ sym \in DOMAIN spike'.last
  /\ (sym \in DOMAIN spike.last => spike'.last[sym] # spike.last[sym])

\* C34: a message delivered on a stopped connection changes no component state
\* and leaves the live connection and its set alone; a tick is processed only
\* when it passes the filter of the set of the connection in use; that set is
\* replaced only while no connection is live; and a connection that is stopped
\* or closed has no ping timer.
C34_StoppedConnectionIsInert ==
  [][ /\ DeliveredOnStopped
           => (Untouched /\ conn' = conn /\ useSet' = useSet /\ upc' = upc)
      /\ \A sym \in {"BTC_USDT", "ETH_USDT"} :
           Processed(sym)
             => (Delivered /\ conn.ws = "open" /\ ~Filtered(uCfg.variant, useSet, sym))
      /\ useSet' # useSet => (conn.ws = "none" /\ conn'.ws # "open")
      /\ conn'.ws = "none" => ~conn'.ping
      /\ \A s \in stale'.socks : ~s.ping
    ]_vars

C34_StoppedSocketDelivered ==
  /\ stale.got > 0
  /\ stale.socks # {}
  /\ conn.ws = "open"
  /\ nConn >= 2

=============================================================================
